---------------------------- MODULE Spec2Model ----------------------------
(***************************************************************************)
(* A model of jwodder/permutation (src/src/permutation/__init__.py).       *)
(*                                                                         *)
(* A Permutation object has one field, __map, a tuple of positive          *)
(* integers.  A Permutation is modelled by the value of that field, a      *)
(* sequence of integers.  A method that can raise returns an outcome       *)
(* record [err, msg, val]: err = TRUE stands for the raised exception      *)
(* (no value is returned), err = FALSE for a normal return of val.         *)
(***************************************************************************)
EXTENDS Integers, Sequences, FiniteSets, TLC

(***************************************************************************)
(* Bounds of the model.                                                    *)
(***************************************************************************)
\* longest image handed to the constructor in SpecOne and SpecPair
MaxLen == 4
\* largest degree in Spec (the session) and SpecTriple
MaxDeg == 3
\* longest list of cycles handed to from_cycles in SpecFromCycles
MaxCycles == 2
\* largest absolute exponent handed to **
MaxExp == 4
\* the longest string that is tried with every choice of characters
MaxStr == 5

VARIABLES
    imgs,   \* the images the caller hands to the constructor, one per operand
    p,      \* self: the __map of a Permutation object
    q,      \* other: the __map of a second Permutation object
    r,      \* the __map of a third Permutation object
    op,     \* the operation that ran last ("init": none yet)
    arg,    \* the argument of that operation that is not a Permutation
    ret     \* what that operation returned or raised: an outcome record

vars == <<imgs, p, q, r, op, arg, ret>>

(***************************************************************************)
(* Outcomes: a normal return, or a raised exception.                       *)
(***************************************************************************)
Return(v) == [err |-> FALSE, msg |-> "", val |-> v]
Raise(m) == [err |-> TRUE, msg |-> m, val |-> <<>>]
\* o, then F of its value: an exception raised by o propagates
Then(o, F(_)) == IF o.err THEN o ELSE F(o.val)

max(a, b) == IF a >= b THEN a ELSE b

\* the tuples over S of length at most n
TuplesUpTo(S, n) == UNION {[1..k -> S] : k \in 0..n}

(***************************************************************************)
(* Permutation.__init__                                                    *)
(***************************************************************************)
\* the validation loop for i in img, at the k-th element, with used[]
RECURSIVE init_scan(_, _, _)
init_scan(img, k, used) ==
    IF k > Len(img) THEN "ok"
    ELSE LET i == img[k]
         IN  IF i < 1 THEN "values must be positive"
             ELSE IF i > Len(img) THEN "value missing from input"
             ELSE IF used[i] THEN "value repeated in input"
             ELSE init_scan(img, k + 1, [used EXCEPT ![i] = TRUE])

\* while d > 0 and img[d - 1] == d: d -= 1
RECURSIVE init_trim(_, _)
init_trim(img, d) ==
    IF d > 0 /\ img[d] = d THEN init_trim(img, d - 1) ELSE d

\* a plausible slip: the trimming loop left out
Permutation_notrim(img) ==
    LET e == init_scan(img, 1, [j \in 1..Len(img) |-> FALSE])
    IN  IF e # "ok" THEN Raise(e) ELSE Return(img)

\* a plausible slip: the duplicate check left out
Permutation_nodup(img) ==
    IF \E k \in 1..Len(img) : img[k] < 1 THEN Raise("values must be positive")
    ELSE IF \E k \in 1..Len(img) : img[k] > Len(img)
         THEN Raise("value missing from input")
    ELSE Return(SubSeq(img, 1, init_trim(img, Len(img))))

Permutation(img) ==
    LET e == init_scan(img, 1, [j \in 1..Len(img) |-> FALSE])
    IN  IF e # "ok" THEN Raise(e)
        ELSE Return(SubSeq(img, 1, init_trim(img, Len(img))))

(***************************************************************************)
(* Permutation.__call__, degree                                            *)
(***************************************************************************)
\* a plausible slip: < for <=, so the last stored image is not read
call_strict(map, i) == IF 0 < i /\ i < Len(map) THEN map[i] ELSE i

call(map, i) == IF 0 < i /\ i <= Len(map) THEN map[i] ELSE i

degree(map) == Len(map)

(***************************************************************************)
(* Permutation.__eq__ (both operands Permutations), __hash__               *)
(***************************************************************************)
eq(a, b) == a = b

\* hash(self.__map): a function of the tuple alone.  Python's tuple hash is
\* modelled by a polynomial hash of the elements, folded over the tuple in
\* order, in a 16-bit word.
RECURSIVE tuple_hash(_, _, _)
tuple_hash(t, k, acc) ==
    IF k > Len(t) THEN acc
    ELSE tuple_hash(t, k + 1, (acc * 31 + t[k] + 7) % 65536)

hash(map) == tuple_hash(map, 1, 1)

(***************************************************************************)
(* Permutation.to_image.  The Optional[int] argument is <<>> for None and  *)
(* <<n>> for the integer n.                                                *)
(***************************************************************************)
to_image(map, n) ==
    IF n # <<>> /\ n[1] < degree(map) THEN Raise("ValueError")
    ELSE LET m == IF n = <<>> \/ n[1] = 0 THEN degree(map) ELSE n[1]
         IN  Return(map \o [k \in 1..(m - degree(map)) |-> degree(map) + k])

(***************************************************************************)
(* Permutation.permute, for a sequence xs                                  *)
(***************************************************************************)
None == "None"

\* a plausible slip: the element at index p(i) is moved to index i
RECURSIVE permute_loop_gather(_, _, _, _)
permute_loop_gather(map, xs, k, out) ==
    IF k > Len(xs) THEN out
    ELSE permute_loop_gather(map, xs, k + 1,
                             [out EXCEPT ![k] = xs[call(map, k)]])

\* for i in range(len(xs)): out[self(i + 1) - 1] = xs[i], at index k
RECURSIVE permute_loop(_, _, _, _)
permute_loop(map, xs, k, out) ==
    IF k > Len(xs) THEN out
    ELSE permute_loop(map, xs, k + 1, [out EXCEPT ![call(map, k)] = xs[k]])

permute(map, xs) ==
    IF Len(xs) < degree(map)
    THEN Raise("sequence must have at least degree elements")
    ELSE Return(permute_loop(map, xs, 1, [k \in 1..Len(xs) |-> None]))

(***************************************************************************)
(* Permutation.__mul__                                                     *)
(***************************************************************************)
\* a plausible slip: the operands composed in the other order
mul_swapped(a, b) ==
    Permutation([i \in 1..max(degree(a), degree(b)) |-> call(b, call(a, i))])

\* a plausible slip: the image left untrimmed where the degrees differ
mul_pad(a, b) ==
    LET o == Permutation([i \in 1..max(degree(a), degree(b))
                            |-> call(a, call(b, i))])
    IN  IF degree(a) # degree(b) /\ o.val # <<>>
        THEN Return(o.val \o <<Len(o.val) + 1>>) ELSE o

\* a plausible slip: the range ends at the smaller of the two degrees
mul_min(a, b) ==
    Permutation([i \in 1..(degree(a) + degree(b) - max(degree(a), degree(b)))
                    |-> call(a, call(b, i))])

mul(a, b) ==
    Permutation([i \in 1..max(degree(a), degree(b)) |-> call(a, call(b, i))])

(***************************************************************************)
(* Permutation.inverse                                                     *)
(***************************************************************************)
\* a plausible slip: the permutation itself returned
inverse_self(map) == Return(map)

inverse(map) ==
    Then(permute(map, [k \in 1..degree(map) |-> k]), LAMBDA xs : Permutation(xs))

(***************************************************************************)
(* Permutation.to_cycles.  cmap is the working copy list(self.__map), in   *)
(* which 0 marks a visited position; positions are 1-based here, so the    *)
(* loop variable i of the source is i - 1.                                 *)
(***************************************************************************)
\* the loop while True, entered for the orbit that starts at position start
RECURSIVE to_cycles_orbit(_, _, _, _)
to_cycles_orbit(cmap, x, cyke, start) ==
    LET cyke2 == Append(cyke, x)
        x2 == cmap[x]
        cmap2 == [cmap EXCEPT ![x] = 0]
    IN  IF x2 = start THEN [cmap |-> cmap2, cyke |-> cyke2]
        ELSE to_cycles_orbit(cmap2, x2, cyke2, start)

\* the loop for i in range(len(cmap)), at position i
RECURSIVE to_cycles_scan(_, _, _)
to_cycles_scan(cmap, i, cycles) ==
    IF i > Len(cmap) THEN cycles
    ELSE IF cmap[i] \notin {0, i}
         THEN LET o == to_cycles_orbit(cmap, i, <<>>, i)
              IN  to_cycles_scan(o.cmap, i + 1, Append(cycles, o.cyke))
         ELSE to_cycles_scan(cmap, i + 1, cycles)

\* a plausible slip: visited positions are not marked, so an orbit is
\* listed again from each of its later elements
RECURSIVE to_cycles_scan_nomark(_, _, _)
to_cycles_scan_nomark(cmap, i, cycles) ==
    IF i > Len(cmap) THEN cycles
    ELSE IF cmap[i] \notin {0, i}
         THEN LET o == to_cycles_orbit(cmap, i, <<>>, i)
              IN  to_cycles_scan_nomark(cmap, i + 1, Append(cycles, o.cyke))
         ELSE to_cycles_scan_nomark(cmap, i + 1, cycles)

to_cycles_nomark(map) == to_cycles_scan_nomark(map, 1, <<>>)

to_cycles(map) == to_cycles_scan(map, 1, <<>>)

(***************************************************************************)
(* Permutation.cycle.  mapping is the dict of the source: a function whose *)
(* domain is the set of its keys.                                          *)
(***************************************************************************)
\* mapping.get(i, i)
dict_get(mapping, i) == IF i \in DOMAIN mapping THEN mapping[i] ELSE i

\* the loop for i, v in enumerate(cyclist), at the k-th element
RECURSIVE cycle_loop(_, _, _, _)
cycle_loop(cyclist, k, mapping, maxVal) ==
    IF k > Len(cyclist)
    THEN Permutation([i \in 1..maxVal |-> dict_get(mapping, i)])
    ELSE LET v == cyclist[k]
             nxt == IF k < Len(cyclist) THEN cyclist[k + 1] ELSE cyclist[1]
         IN  IF v < 1 THEN Raise("values must be positive")
             ELSE IF v \in DOMAIN mapping
                  THEN Raise("appears more than once in cycle")
             ELSE cycle_loop(cyclist, k + 1,
                             [u \in DOMAIN mapping \cup {v} |->
                                 IF u = v THEN nxt ELSE mapping[u]],
                             max(v, maxVal))

\* a plausible slip: the last element is not mapped back to the first
RECURSIVE cycle_loop_open(_, _, _, _)
cycle_loop_open(cyclist, k, mapping, maxVal) ==
    IF k > Len(cyclist)
    THEN Permutation([i \in 1..maxVal |-> dict_get(mapping, i)])
    ELSE LET v == cyclist[k]
             nxt == IF k < Len(cyclist) THEN cyclist[k + 1] ELSE v
         IN  IF v < 1 THEN Raise("values must be positive")
             ELSE IF v \in DOMAIN mapping
                  THEN Raise("appears more than once in cycle")
             ELSE cycle_loop_open(cyclist, k + 1,
                                  [u \in DOMAIN mapping \cup {v} |->
                                      IF u = v THEN nxt ELSE mapping[u]],
                                  max(v, maxVal))

cycle_open(cyc) == cycle_loop_open(cyc, 1, <<>>, 0)

\* a plausible slip: the check for a repeated value left out
RECURSIVE cycle_loop_nodup(_, _, _, _)
cycle_loop_nodup(cyclist, k, mapping, maxVal) ==
    IF k > Len(cyclist)
    THEN Permutation([i \in 1..maxVal |-> dict_get(mapping, i)])
    ELSE LET v == cyclist[k]
             nxt == IF k < Len(cyclist) THEN cyclist[k + 1] ELSE cyclist[1]
         IN  IF v < 1 THEN Raise("values must be positive")
             ELSE cycle_loop_nodup(cyclist, k + 1,
                                   [u \in DOMAIN mapping \cup {v} |->
                                       IF u = v THEN nxt ELSE mapping[u]],
                                   max(v, maxVal))

cycle_nodup(cyc) == cycle_loop_nodup(cyc, 1, <<>>, 0)

cycle(cyc) == cycle_loop(cyc, 1, <<>>, 0)

(***************************************************************************)
(* Permutation.from_cycles: reduce(operator.mul, starmap(cls.cycle,        *)
(* cycles), cls()).  starmap is lazy, so cycle(cycles[k]) runs, and may    *)
(* raise, when the fold reaches it.                                        *)
(***************************************************************************)
RECURSIVE from_cycles_reduce(_, _, _)
from_cycles_reduce(cycles, k, acc) ==
    IF k > Len(cycles) THEN Return(acc)
    ELSE Then(cycle(cycles[k]), LAMBDA c :
              Then(mul(acc, c), LAMBDA m : from_cycles_reduce(cycles, k + 1, m)))

\* a plausible slip: the fold multiplies on the other side
RECURSIVE from_cycles_reduce_rev(_, _, _)
from_cycles_reduce_rev(cycles, k, acc) ==
    IF k > Len(cycles) THEN Return(acc)
    ELSE Then(cycle(cycles[k]), LAMBDA c :
              Then(mul(c, acc), LAMBDA m :
                   from_cycles_reduce_rev(cycles, k + 1, m)))

from_cycles_rev(cycles) ==
    Then(Permutation(<<>>), LAMBDA e : from_cycles_reduce_rev(cycles, 1, e))

from_cycles(cycles) ==
    Then(Permutation(<<>>), LAMBDA e : from_cycles_reduce(cycles, 1, e))

(***************************************************************************)
(* Permutation.__pow__                                                     *)
(***************************************************************************)
\* while not (n & 1): p *= p; n >>= 1
RECURSIVE pow_even(_, _)
pow_even(b, n) ==
    IF n % 2 = 0
    THEN Then(mul(b, b), LAMBDA b2 : pow_even(b2, n \div 2))
    ELSE Return(<<b, n>>)

\* a plausible slip: agg is multiplied whatever the low bit of n is
RECURSIVE pow_loop_always(_, _, _)
pow_loop_always(agg, b, n) ==
    IF n > 0
    THEN Then(mul(agg, b), LAMBDA agg2 :
              Then(mul(b, b), LAMBDA b2 : pow_loop_always(agg2, b2, n \div 2)))
    ELSE Return(agg)

\* while n > 0: if n & 1: agg *= p; p *= p; n >>= 1
RECURSIVE pow_loop(_, _, _)
pow_loop(agg, b, n) ==
    IF n > 0
    THEN Then(IF n % 2 = 1 THEN mul(agg, b) ELSE Return(agg), LAMBDA agg2 :
              Then(mul(b, b), LAMBDA b2 : pow_loop(agg2, b2, n \div 2)))
    ELSE Return(agg)

pow(map, n) ==
    IF n = 0 THEN Permutation(<<>>)
    ELSE Then(IF n < 0 THEN inverse(map) ELSE Return(map), LAMBDA b0 :
              Then(pow_even(b0, IF n < 0 THEN 0 - n ELSE n), LAMBDA bn :
                   Then(mul(bn[1], bn[1]), LAMBDA b2 :
                        pow_loop(bn[1], b2, bn[2] \div 2))))

(***************************************************************************)
(* to_factorial_base, from_factorial_base                                  *)
(***************************************************************************)
\* list.reverse()
reverse(t) == [k \in 1..Len(t) |-> t[Len(t) + 1 - k]]

\* while n > 0: digits.append(n % (i + 1)); i += 1; n //= i
RECURSIVE to_factorial_base_loop(_, _, _)
to_factorial_base_loop(n, i, digits) ==
    IF n > 0
    THEN to_factorial_base_loop(n \div (i + 1), i + 1, Append(digits, n % (i + 1)))
    ELSE digits

\* a plausible slip: the digits are left least significant first
to_factorial_base_noreverse(n) ==
    IF n < 0 THEN Raise("ValueError")
    ELSE IF n = 0 THEN Return(<<0>>)
    ELSE Return(to_factorial_base_loop(n, 1, <<>>))

to_factorial_base(n) ==
    IF n < 0 THEN Raise("ValueError")
    ELSE IF n = 0 THEN Return(<<0>>)
    ELSE Return(reverse(to_factorial_base_loop(n, 1, <<>>)))

\* for i, d in enumerate(reversed(digits), start=1), at the i-th digit
RECURSIVE from_factorial_base_loop(_, _, _, _)
from_factorial_base_loop(rdigits, i, n, base) ==
    IF i > Len(rdigits) THEN Return(n)
    ELSE IF ~(0 <= rdigits[i] /\ rdigits[i] <= i) THEN Raise("ValueError")
    ELSE from_factorial_base_loop(rdigits, i + 1, n + rdigits[i] * base,
                                  base * (i + 1))

from_factorial_base(digits) ==
    from_factorial_base_loop(reverse(digits), 1, 0, 1)

(***************************************************************************)
(* Permutation.from_lehmer, Permutation.from_left_lehmer                   *)
(***************************************************************************)
\* for j, y in enumerate(mapping): if y >= c: mapping[j] += 1
lehmer_bump(mapping, c) ==
    [j \in 1..Len(mapping) |->
        IF mapping[j] >= c THEN mapping[j] + 1 ELSE mapping[j]]

\* for i in range(1, n + 1), at i, and what follows the loop
RECURSIVE from_lehmer_loop(_, _, _, _, _)
from_lehmer_loop(x, x2, i, n, mapping) ==
    IF i > n
    THEN IF x2 # 0 THEN Raise("ValueError")
         ELSE Permutation([k \in 1..Len(mapping) |-> mapping[k] + 1])
    ELSE LET c == x2 % i
         IN  from_lehmer_loop(x, x2 \div i, i + 1, n,
                              <<c>> \o lehmer_bump(mapping, c))

\* a plausible slip: the quotient left after the loop is not tested
RECURSIVE from_lehmer_loop_nocheck(_, _, _, _, _)
from_lehmer_loop_nocheck(x, x2, i, n, mapping) ==
    IF i > n
    THEN Permutation([k \in 1..Len(mapping) |-> mapping[k] + 1])
    ELSE LET c == x2 % i
         IN  from_lehmer_loop_nocheck(x, x2 \div i, i + 1, n,
                                      <<c>> \o lehmer_bump(mapping, c))

from_lehmer_nocheck(x, n) ==
    IF x < 0 THEN Raise("ValueError")
    ELSE from_lehmer_loop_nocheck(x, x, 1, n, <<>>)

from_lehmer(x, n) ==
    IF x < 0 THEN Raise("ValueError")
    ELSE from_lehmer_loop(x, x, 1, n, <<>>)

\* for c in reversed(to_factorial_base(x)), at the k-th digit
RECURSIVE from_left_lehmer_loop(_, _, _)
from_left_lehmer_loop(rdigits, k, mapping) ==
    IF k > Len(rdigits)
    THEN Permutation([j \in 1..Len(mapping) |-> Len(mapping) - mapping[j]])
    ELSE from_left_lehmer_loop(rdigits, k + 1,
                               Append(lehmer_bump(mapping, rdigits[k]),
                                      rdigits[k]))

from_left_lehmer(x) ==
    IF x < 0 THEN Raise("ValueError")
    ELSE Then(to_factorial_base(x), LAMBDA digits :
              from_left_lehmer_loop(reverse(digits), 1, <<0>>))

(***************************************************************************)
(* Permutation.next_permutation, Permutation.prev_permutation.  Positions  *)
(* are 1-based here: the index i of the source is i - 1.                   *)
(***************************************************************************)
\* map2[i], map2[j] = map2[j], map2[i]; map2[:i] = reversed(map2[:i])
swap_reverse(map2, i, j) ==
    LET sw == [map2 EXCEPT ![i] = map2[j], ![j] = map2[i]]
    IN  [k \in 1..Len(map2) |-> IF k < i THEN sw[i - k] ELSE sw[k]]

\* a plausible slip: the search runs leftwards from position i, and stops at
\* once
next_find_nearest(map2, i, j) == i - 1

\* j = 0; while map2[i] <= map2[j]: j += 1
RECURSIVE next_find(_, _, _)
next_find(map2, i, j) ==
    IF map2[i] <= map2[j] THEN next_find(map2, i, j + 1) ELSE j

\* for i in range(1, len(map2)), at i, and what follows the loop
RECURSIVE next_scan(_, _)
next_scan(map2, i) ==
    IF i > Len(map2)
    THEN LET d == max(degree(map2), 1) IN cycle(<<d, d + 1>>)
    ELSE IF map2[i] > map2[i - 1]
         THEN Permutation(swap_reverse(map2, i, next_find(map2, i, 1)))
         ELSE next_scan(map2, i + 1)

\* a plausible slip: d is the degree, 0 for the identity
RECURSIVE next_scan_nomax(_, _)
next_scan_nomax(map2, i) ==
    IF i > Len(map2)
    THEN LET d == degree(map2) IN cycle(<<d, d + 1>>)
    ELSE IF map2[i] > map2[i - 1]
         THEN Permutation(swap_reverse(map2, i, next_find(map2, i, 1)))
         ELSE next_scan_nomax(map2, i + 1)

next_permutation_nomax(map) == next_scan_nomax(map, 2)

next_permutation(map) == next_scan(map, 2)

\* j = 0; while map2[i] >= map2[j]: j += 1
RECURSIVE prev_find(_, _, _)
prev_find(map2, i, j) ==
    IF map2[i] >= map2[j] THEN prev_find(map2, i, j + 1) ELSE j

RECURSIVE prev_scan(_, _)
prev_scan(map2, i) ==
    IF i > Len(map2) THEN Raise("AssertionError: Unreachable state reached")
    ELSE IF map2[i] < map2[i - 1]
         THEN Permutation(swap_reverse(map2, i, prev_find(map2, i, 1)))
         ELSE prev_scan(map2, i + 1)

\* a plausible slip: <= for <, so the transposition of 1 and 2 is rejected
prev_permutation_le(map) ==
    IF degree(map) <= 2 THEN Raise("cannot decrement identity")
    ELSE prev_scan(map, 2)

prev_permutation(map) ==
    IF degree(map) < 2 THEN Raise("cannot decrement identity")
    ELSE prev_scan(map, 2)

(***************************************************************************)
(* Permutation.group: the generator sn(), run to exhaustion.  The value is *)
(* the list of the Permutations it yields, in order.                       *)
(***************************************************************************)
\* while p.degree <= n: yield p; p = p.next_permutation()
RECURSIVE group_sn(_, _, _)
group_sn(n, cur, yielded) ==
    IF degree(cur) <= n
    THEN Then(next_permutation(cur), LAMBDA nxt :
              group_sn(n, nxt, Append(yielded, cur)))
    ELSE Return(yielded)

group(n) ==
    IF n < 0 THEN Raise("ValueError")
    ELSE Then(Permutation(<<>>), LAMBDA e : group_sn(n, e, <<>>))

(***************************************************************************)
(* Permutation.right_inversion_count, inversions, lehmer, left_lehmer.     *)
(* List indices are 0-based, as in the source.                             *)
(***************************************************************************)
\* left.index(v): the first index of v in left; ValueError when v is absent
list_index(left, v) ==
    IF \E k \in 1..Len(left) : left[k] = v
    THEN Return((CHOOSE k \in 1..Len(left) :
                    left[k] = v /\ \A j \in 1..(k - 1) : left[j] # v) - 1)
    ELSE Raise("ValueError: not in list")

\* a plausible slip: the element found is not deleted
list_del_none(left, i) == left

\* del left[i]
list_del(left, i) ==
    [k \in 1..(Len(left) - 1) |-> IF k <= i THEN left[k] ELSE left[k + 1]]

\* digits[:-1]
but_last(t) == IF t = <<>> THEN <<>> ELSE SubSeq(t, 1, Len(t) - 1)

\* sum(xs)
RECURSIVE sum(_)
sum(xs) == IF xs = <<>> THEN 0 ELSE Head(xs) + sum(Tail(xs))

\* for x in left[:]: i = left.index(self(x)); del left[i]; digits.append(i)
\* at the k-th element of the copy xs
RECURSIVE inversion_loop(_, _, _, _, _)
inversion_loop(map, xs, k, left, digits) ==
    IF k > Len(xs) THEN Return(digits)
    ELSE Then(list_index(left, call(map, xs[k])), LAMBDA i :
              inversion_loop(map, xs, k + 1, list_del(left, i),
                             Append(digits, i)))

\* n is <<>> for None and <<n>> for the integer n
right_inversion_count(map, n) ==
    IF n # <<>> /\ n[1] < degree(map) THEN Raise("ValueError")
    ELSE LET m == IF n = <<>> THEN degree(map) ELSE n[1]
             left == [k \in 1..m |-> k]
         IN  inversion_loop(map, left, 1, left, <<>>)

inversions(map) ==
    Then(right_inversion_count(map, <<>>), LAMBDA digits : Return(sum(digits)))

\* a plausible slip: the last digit, always 0, is not dropped
lehmer_full(map, n) ==
    Then(right_inversion_count(map, <<n>>), LAMBDA digits :
         from_factorial_base(digits))

lehmer(map, n) ==
    Then(right_inversion_count(map, <<n>>), LAMBDA digits :
         from_factorial_base(but_last(digits)))

\* a plausible slip: left counts up, which gives the right inversion count
left_lehmer_asc(map) ==
    LET left == [k \in 1..degree(map) |-> k]
    IN  Then(inversion_loop(map, left, 1, left, <<>>), LAMBDA digits :
             from_factorial_base(but_last(digits)))

left_lehmer(map) ==
    LET left == [k \in 1..degree(map) |-> degree(map) + 1 - k]
    IN  Then(inversion_loop(map, left, 1, left, <<>>), LAMBDA digits :
             from_factorial_base(but_last(digits)))

(***************************************************************************)
(* lcm, Permutation.order, is_even, is_odd, sign                           *)
(***************************************************************************)
\* math.gcd, for non-negative arguments
RECURSIVE gcd(_, _)
gcd(x, y) == IF y = 0 THEN x ELSE gcd(y, x % y)

abs(x) == IF x < 0 THEN 0 - x ELSE x

\* a plausible slip: the product is not divided by the gcd
lcm_product(x, y) == abs(x * y)

lcm(x, y) == LET d == gcd(x, y) IN IF d = 0 THEN 0 ELSE abs(x * y) \div d

\* reduce(lcm, map(len, cycles), 1), at the k-th cycle
RECURSIVE order_reduce(_, _, _)
order_reduce(cycles, k, acc) ==
    IF k > Len(cycles) THEN acc
    ELSE order_reduce(cycles, k + 1, lcm(acc, Len(cycles[k])))

order(map) == order_reduce(to_cycles(map), 1, 1)

\* a plausible slip: the lengths are summed, not the lengths less one
is_even_len(map) ==
    LET cycles == to_cycles(map)
    IN  sum([k \in 1..Len(cycles) |-> Len(cycles[k])]) % 2 = 0

\* not sum((len(cyc) - 1 for cyc in self.to_cycles()), 0) % 2
is_even(map) ==
    LET cycles == to_cycles(map)
    IN  sum([k \in 1..Len(cycles) |-> Len(cycles[k]) - 1]) % 2 = 0

is_odd(map) == ~is_even(map)

sign(map) == IF is_even(map) THEN 1 ELSE 0 - 1

(***************************************************************************)
(* Permutation.isdisjoint                                                  *)
(***************************************************************************)
\* zip stops at the end of the shorter of the two tuples
min(a, b) == IF a <= b THEN a ELSE b

\* a plausible slip: both images must be i + 1, not one of them
isdisjoint_both(a, b) ==
    \A i \in 1..min(Len(a), Len(b)) : a[i] = i /\ b[i] = i

\* all(i + 1 in (a, b) for (i, (a, b)) in enumerate(zip(self.__map,
\* other.__map)))
isdisjoint(a, b) ==
    \A i \in 1..min(Len(a), Len(b)) : i \in {a[i], b[i]}

(***************************************************************************)
(* Permutation.__str__ and Permutation.parse.  A string is the sequence of *)
(* its characters, each a string of length 1.                              *)
(***************************************************************************)
\* the characters str.strip(), int() and the class \s count as whitespace,
\* as far as the inputs have them
whitespace == {" ", "\t", "\n", "\r", "\f"}

digits == <<"0", "1", "2", "3", "4", "5", "6", "7", "8", "9">>

isdigit(c) == \E d \in 1..Len(digits) : digits[d] = c

\* the value of the digit c
digit_value(c) == (CHOOSE d \in 1..Len(digits) : digits[d] = c) - 1

\* str(n) for an int n >= 0: its decimal digits, no leading zero
RECURSIVE str_of_nat(_)
str_of_nat(n) ==
    IF n < Len(digits) THEN <<digits[n + 1]>>
    ELSE Append(str_of_nat(n \div Len(digits)), digits[(n % Len(digits)) + 1])

\* str(n) for an int n
str_of_int(n) == IF n < 0 THEN <<"-">> \o str_of_nat(0 - n) ELSE str_of_nat(n)

\* sep.join(parts), from the k-th part on
RECURSIVE join(_, _, _)
join(sep, parts, k) ==
    IF k > Len(parts) THEN <<>>
    ELSE IF k = Len(parts) THEN parts[k]
    ELSE parts[k] \o sep \o join(sep, parts, k + 1)

\* "".join("(" + " ".join(map(str, cyc)) + ")" for cyc in cycles), from the
\* k-th cycle on
RECURSIVE str_cycles(_, _)
str_cycles(cycles, k) ==
    IF k > Len(cycles) THEN <<>>
    ELSE <<"(">>
         \o join(<<" ">>,
                 [j \in 1..Len(cycles[k]) |-> str_of_int(cycles[k][j])], 1)
         \o <<")">>
         \o str_cycles(cycles, k + 1)

\* a plausible slip: the identity is written as no cycles at all
str_empty(map) == str_cycles(to_cycles(map), 1)

\* Permutation.__str__: ... or "1"
str(map) ==
    LET s == str_cycles(to_cycles(map), 1)
    IN  IF s = <<>> THEN <<"1">> ELSE s

\* s.lstrip(), s.rstrip(), s.strip()
RECURSIVE lstrip(_)
lstrip(s) ==
    IF s # <<>> /\ s[1] \in whitespace THEN lstrip(Tail(s)) ELSE s

RECURSIVE rstrip(_)
rstrip(s) ==
    IF s # <<>> /\ s[Len(s)] \in whitespace
    THEN rstrip(SubSeq(s, 1, Len(s) - 1))
    ELSE s

strip(s) == rstrip(lstrip(s))

startswith(s, c) == s # <<>> /\ s[1] = c

endswith(s, c) == s # <<>> /\ s[Len(s)] = c

\* the first position from k on whose character is not in the set chars,
\* Len(s) + 1 if there is none: where a greedy [chars]* that starts at k ends
RECURSIVE skip(_, _, _)
skip(s, k, chars) ==
    IF k <= Len(s) /\ s[k] \in chars THEN skip(s, k + 1, chars) ELSE k

\* re.split(r"\)[\s,]*\(", s), at position k: piece is the text since the
\* last match, out the pieces before it
RECURSIVE split_cycles(_, _, _, _)
split_cycles(s, k, piece, out) ==
    IF k > Len(s) THEN Append(out, piece)
    ELSE LET e == skip(s, k + 1, whitespace \cup {","})
         IN  IF s[k] = ")" /\ e <= Len(s) /\ s[e] = "("
             THEN split_cycles(s, e + 1, <<>>, Append(out, piece))
             ELSE split_cycles(s, k + 1, Append(piece, s[k]), out)

\* re.split(r"\s*,\s*|\s+", s), at position k
RECURSIVE split_ints(_, _, _, _)
split_ints(s, k, piece, out) ==
    IF k > Len(s) THEN Append(out, piece)
    ELSE LET w == skip(s, k, whitespace)
         IN  IF w <= Len(s) /\ s[w] = ","
             THEN split_ints(s, skip(s, w + 1, whitespace), <<>>,
                             Append(out, piece))
             ELSE IF w > k
             THEN split_ints(s, w, <<>>, Append(out, piece))
             ELSE split_ints(s, k + 1, Append(piece, s[k]), out)

\* the digits of an int literal from position k on, a digit expected at k:
\* digits, with single underscores between them
RECURSIVE int_digits(_, _, _)
int_digits(s, k, acc) ==
    IF k > Len(s) \/ ~isdigit(s[k])
    THEN Raise("invalid literal for int() with base 10")
    ELSE LET v == acc * Len(digits) + digit_value(s[k])
         IN  IF k = Len(s) THEN Return(v)
             ELSE IF s[k + 1] = "_" THEN int_digits(s, k + 2, v)
             ELSE int_digits(s, k + 1, v)

\* int(s) for a string s
int(s) ==
    LET t == strip(s)
        signed == t # <<>> /\ t[1] \in {"+", "-"}
    IN  Then(int_digits(IF signed THEN Tail(t) ELSE t, 1, 0),
             LAMBDA v : Return(IF signed /\ t[1] = "-" THEN 0 - v ELSE v))

\* cycle(*map(int, toks)): the map object is used up, from its k-th token
\* on, before cycle runs
RECURSIVE map_int(_, _, _)
map_int(toks, k, out) ==
    IF k > Len(toks) THEN Return(out)
    ELSE Then(int(toks[k]), LAMBDA v : map_int(toks, k + 1, Append(out, v)))

\* the loop for cyc in re.split(...) of parse, at the k-th piece: cycles is
\* the list of the token lists map(int, ...) will read
RECURSIVE parse_loop(_, _, _)
parse_loop(pieces, k, cycles) ==
    IF k > Len(pieces) THEN cycles
    ELSE LET cyc == strip(pieces[k])
         IN  IF cyc # <<>>
             THEN parse_loop(pieces, k + 1,
                             Append(cycles, split_ints(cyc, 1, <<>>, <<>>)))
             ELSE parse_loop(pieces, k + 1, cycles)

\* cls.from_cycles(*cycles) for cycles a list of map objects: the fold of
\* from_cycles, in which cycle(*cycles[k]) first reads the tokens as ints
RECURSIVE parse_from_cycles(_, _, _)
parse_from_cycles(cycles, k, acc) ==
    IF k > Len(cycles) THEN Return(acc)
    ELSE Then(map_int(cycles[k], 1, <<>>), LAMBDA cyc :
         Then(cycle(cyc), LAMBDA c :
         Then(mul(acc, c), LAMBDA m : parse_from_cycles(cycles, k + 1, m))))

\* a plausible slip: the two ends are not tested for the parentheses
parse_unchecked(s0) ==
    LET s == strip(s0)
    IN  IF s = <<"1">> THEN Permutation(<<>>)
        ELSE parse_from_cycles(
                 parse_loop(split_cycles(SubSeq(s, 2, Len(s) - 1), 1,
                                         <<>>, <<>>), 1, <<>>),
                 1, Permutation(<<>>).val)

\* Permutation.parse(s)
parse(s0) ==
    LET s == strip(s0)
    IN  IF s = <<"1">> THEN Permutation(<<>>)
        ELSE IF ~(startswith(s, "(") /\ endswith(s, ")"))
        THEN Raise("ValueError")
        ELSE parse_from_cycles(
                 parse_loop(split_cycles(SubSeq(s, 2, Len(s) - 1), 1,
                                         <<>>, <<>>), 1, <<>>),
                 1, Permutation(<<>>).val)

(***************************************************************************)
(* The inputs the specifications draw from.                                *)
(***************************************************************************)
\* every argument list of the constructor up to MaxLen: values below 1 and
\* above the length included
Imgs == TuplesUpTo(0..(MaxLen + 1), MaxLen)
\* the argument lists of length at most n the constructor accepts
GoodImgs(n) == {i \in TuplesUpTo(1..n, n) : ~Permutation(i).err}
\* the integers a permutation is applied to
XRange == (0 - 2)..(MaxLen + 2)

(***************************************************************************)
(* Operations on the operands.  Each leaves the operands as they are and   *)
(* records what it was given and what it returned.                         *)
(***************************************************************************)
\* p = Permutation(*imgs[1])
NewOp ==
    /\ op = "init"
    /\ ret' = Permutation(imgs[1])
    /\ p' = ret'.val
    /\ op' = "new"
    /\ UNCHANGED <<imgs, q, r, arg>>

\* there is an object p: the constructor has run and has not raised
Live == op # "init" /\ ~(op = "new" /\ ret.err)

\* p(x)
CallOp(x) ==
    /\ Live
    /\ op' = "call"
    /\ arg' = x
    /\ ret' = Return(call(p, x))
    /\ UNCHANGED <<imgs, p, q, r>>

\* p.inverse()
InverseOp ==
    /\ Live
    /\ op' = "inverse"
    /\ arg' = 0
    /\ ret' = inverse(p)
    /\ UNCHANGED <<imgs, p, q, r>>

\* p.to_cycles()
ToCyclesOp ==
    /\ Live
    /\ op' = "to_cycles"
    /\ arg' = 0
    /\ ret' = Return(to_cycles(p))
    /\ UNCHANGED <<imgs, p, q, r>>

\* Permutation.from_cycles(*cycles), cycles the list to_cycles just returned
FromCyclesOp ==
    /\ op = "to_cycles"
    /\ op' = "from_cycles"
    /\ arg' = ret.val
    /\ ret' = from_cycles(ret.val)
    /\ UNCHANGED <<imgs, p, q, r>>

(***************************************************************************)
(* SpecOne: one argument list, the constructor on it, and the operations   *)
(* of one Permutation.                                                     *)
(***************************************************************************)
InitOne ==
    /\ imgs \in {<<i>> : i \in Imgs}
    /\ p = <<>> /\ q = <<>> /\ r = <<>>
    /\ op = "init"
    /\ arg = 0
    /\ ret = Return(<<>>)

NextOne ==
    \/ NewOp
    \/ \E x \in XRange : CallOp(x)
    \/ InverseOp
    \/ ToCyclesOp
    \/ FromCyclesOp

SpecOne == InitOne /\ [][NextOne]_vars

(***************************************************************************)
(* Properties checked under SpecOne.                                       *)
(***************************************************************************)
\* img holds every integer of 1..Len(img) exactly once
IsWord(img) ==
    \A v \in 1..Len(img) : Cardinality({k \in 1..Len(img) : img[k] = v}) = 1

\* some element of img is below 1, above Len(img), or repeated
HasBadElement(img) ==
    \E k \in 1..Len(img) :
        \/ img[k] < 1
        \/ img[k] > Len(img)
        \/ \E j \in 1..Len(img) : j # k /\ img[j] = img[k]

\* C2: the constructor returns a Permutation if and only if its arguments
\* hold every integer of 1..len(img) exactly once; it raises, and builds no
\* object, whenever an argument is below 1, above len(img) or repeated.
C2_ConstructorAcceptsExactlyWords ==
    op = "new" =>
        /\ ~ret.err <=> IsWord(imgs[1])
        /\ HasBadElement(imgs[1]) => ret.err /\ ~Live

\* C2's case: the constructor has raised on a repeated value that is in range
C2_Witness ==
    /\ op = "new" /\ ret.err
    /\ \A k \in 1..Len(imgs[1]) : imgs[1][k] \in 1..Len(imgs[1])

\* C3: p = Permutation(*img) applied to x returns img[x-1] for x in
\* 1..len(img), trimmed trailing fixed points included, and x for every other
\* integer; it never raises.
C3_CallIsTotalAndReadsImage ==
    op = "call" =>
        /\ ~ret.err
        /\ ret.val = IF 1 <= arg /\ arg <= Len(imgs[1])
                     THEN imgs[1][arg] ELSE arg

\* C3's case: p, not the identity, was applied to a trailing fixed point of
\* the image that the constructor trimmed
C3_Witness ==
    /\ op = "call"
    /\ degree(p) > 0
    /\ degree(p) < arg /\ arg <= Len(imgs[1])

\* the identity permutation, Permutation()
Identity == Permutation(<<>>).val

\* C5: inverse(p) is a permutation of the degree of p, p * inverse(p) and
\* inverse(p) * p are both the identity, and inverse(inverse(p)) is p.
C5_InverseIsTwoSided ==
    op = "inverse" =>
        /\ ~ret.err
        /\ IsWord(ret.val)
        /\ degree(ret.val) = degree(p)
        /\ mul(p, ret.val) = Return(Identity)
        /\ mul(ret.val, p) = Return(Identity)
        /\ inverse(ret.val) = Return(p)

\* C5's case: the inverse of a permutation that is not its own inverse
C5_Witness ==
    op = "inverse" /\ ~ret.err /\ ret.val # p /\ degree(p) = MaxLen

\* the integers that occur in the list of cycles cs
CycleElements(cs) ==
    UNION {{cs[k][j] : j \in 1..Len(cs[k])} : k \in 1..Len(cs)}

\* C8: to_cycles(p) lists cycles of length >= 2 that start with their
\* smallest element, follow p from each element to the next and from the last
\* to the first, come in strictly increasing order of first element, share no
\* integer, and hold exactly the points p moves (none for the identity).
C8_ToCyclesIsCanonicalDecomposition ==
    op = "to_cycles" =>
        LET cs == ret.val
        IN  /\ \A k \in 1..Len(cs) :
                   /\ Len(cs[k]) >= 2
                   /\ \A j \in 2..Len(cs[k]) : cs[k][1] < cs[k][j]
                   /\ \A j \in 1..Len(cs[k]) :
                          call(p, cs[k][j]) = cs[k][(j % Len(cs[k])) + 1]
            /\ \A k \in 1..(Len(cs) - 1) : cs[k][1] < cs[k + 1][1]
            /\ \A k1 \in 1..Len(cs), k2 \in 1..Len(cs) :
                   \A j1 \in 1..Len(cs[k1]), j2 \in 1..Len(cs[k2]) :
                       cs[k1][j1] = cs[k2][j2] => k1 = k2
            /\ CycleElements(cs) = {x \in XRange : call(p, x) # x}
            /\ p = Identity => cs = <<>>

\* C8's case: a permutation with two cycles has been decomposed
C8_Witness ==
    op = "to_cycles" /\ Len(ret.val) = 2

\* C9: from_cycles(*to_cycles(p)) == p.
C9_CyclesRoundTrip ==
    op = "from_cycles" => ~ret.err /\ eq(ret.val, p)

\* C9's case: a decomposition into two cycles, one of them longer than a
\* transposition, or a single long cycle, has been multiplied back
C9_Witness ==
    /\ op = "from_cycles" /\ ~ret.err
    /\ \E k \in 1..Len(arg) : Len(arg[k]) >= 3

(***************************************************************************)
(* SpecPair: two Permutations, each built by the constructor from an       *)
(* accepted argument list (trailing fixed points included), and the        *)
(* operations of a pair.                                                   *)
(***************************************************************************)
\* p * q
MulOp ==
    /\ Live
    /\ op' = "mul"
    /\ arg' = 0
    /\ ret' = mul(p, q)
    /\ UNCHANGED <<imgs, p, q, r>>

\* p == q
EqOp ==
    /\ Live
    /\ op' = "eq"
    /\ arg' = 0
    /\ ret' = Return(eq(p, q))
    /\ UNCHANGED <<imgs, p, q, r>>

\* hash(p), hash(q)
HashOp ==
    /\ Live
    /\ op' = "hash"
    /\ arg' = 0
    /\ ret' = Return(<<hash(p), hash(q)>>)
    /\ UNCHANGED <<imgs, p, q, r>>

\* p.to_image(n)
ToImageOp(n) ==
    /\ Live
    /\ op' = "to_image"
    /\ arg' = n
    /\ ret' = to_image(p, <<n>>)
    /\ UNCHANGED <<imgs, p, q, r>>

\* Permutation(*image), image the tuple to_image just returned
NewImageOp ==
    /\ op = "to_image" /\ ~ret.err
    /\ op' = "new_image"
    /\ arg' = ret.val
    /\ ret' = Permutation(ret.val)
    /\ UNCHANGED <<imgs, p, q, r>>

InitPair ==
    /\ imgs \in GoodImgs(MaxLen) \X GoodImgs(MaxLen)
    /\ p = Permutation(imgs[1]).val
    /\ q = Permutation(imgs[2]).val
    /\ r = <<>>
    /\ op = "new"
    /\ arg = 0
    /\ ret = Permutation(imgs[2])

NextPair ==
    \/ MulOp
    \/ EqOp
    \/ HashOp
    \/ \E n \in 0..(MaxLen + 1) : ToImageOp(n)
    \/ NewImageOp

SpecPair == InitPair /\ [][NextPair]_vars

\* what the argument list img says x is mapped to
ImgAt(img, x) == IF 1 <= x /\ x <= Len(img) THEN img[x] ELSE x

\* a and b agree on every integer (of XRange)
SameFunction(a, b) == \A x \in XRange : call(a, x) = call(b, x)

\* C4: r = p * q satisfies r(x) == p(q(x)) for every integer x, whatever the
\* degrees of p and q.
C4_MulIsComposition ==
    op = "mul" =>
        /\ ~ret.err
        /\ \A x \in XRange : call(ret.val, x) = call(p, call(q, x))

\* C4's case: two non-commuting permutations of different degrees multiplied
C4_Witness ==
    /\ op = "mul" /\ ~ret.err
    /\ degree(p) # degree(q) /\ p # Identity /\ q # Identity
    /\ mul(q, p) # ret

\* C7: p == q if and only if p and q agree on every integer, which is so if
\* and only if the argument lists they were built from describe the same
\* function (differ by trailing fixed points only); equal permutations have
\* equal hashes; and Permutation(*p.to_image(n)) == p for every n >= degree.
C7_EqualityIsExtensional ==
    /\ op = "eq" =>
           /\ ret.val <=> SameFunction(p, q)
           /\ ret.val <=> \A x \in XRange : ImgAt(imgs[1], x) = ImgAt(imgs[2], x)
    /\ op = "hash" =>
           /\ eq(p, q) => ret.val[1] = ret.val[2]
           /\ (\A x \in XRange : ImgAt(imgs[1], x) = ImgAt(imgs[2], x))
                  => ret.val[1] = ret.val[2]
    /\ op = "to_image" =>
           /\ ret.err <=> arg < degree(p)
           /\ ~ret.err => /\ Len(ret.val) = max(arg, degree(p))
                          /\ \A x \in 1..Len(ret.val) : ret.val[x] = call(p, x)
    /\ op = "new_image" => ~ret.err /\ eq(ret.val, p)

\* C7's case: two different argument lists have built equal permutations that
\* are not the identity
C7_Witness ==
    op = "eq" /\ ret.val /\ imgs[1] # imgs[2] /\ p # Identity

(***************************************************************************)
(* SpecTriple: three Permutations and their products.                      *)
(***************************************************************************)
\* (p * q) * r
MulLeftOp ==
    /\ op' = "mul_left"
    /\ ret' = Then(mul(p, q), LAMBDA m : mul(m, r))
    /\ UNCHANGED <<imgs, p, q, r, arg>>

\* p * (q * r)
MulRightOp ==
    /\ op' = "mul_right"
    /\ ret' = Then(mul(q, r), LAMBDA m : mul(p, m))
    /\ UNCHANGED <<imgs, p, q, r, arg>>

\* p * Permutation()
MulUnitRightOp ==
    /\ op' = "mul_unit_right"
    /\ ret' = Then(Permutation(<<>>), LAMBDA e : mul(p, e))
    /\ UNCHANGED <<imgs, p, q, r, arg>>

\* Permutation() * p
MulUnitLeftOp ==
    /\ op' = "mul_unit_left"
    /\ ret' = Then(Permutation(<<>>), LAMBDA e : mul(e, p))
    /\ UNCHANGED <<imgs, p, q, r, arg>>

InitTriple ==
    /\ imgs \in GoodImgs(MaxDeg) \X GoodImgs(MaxDeg) \X GoodImgs(MaxDeg)
    /\ p = Permutation(imgs[1]).val
    /\ q = Permutation(imgs[2]).val
    /\ r = Permutation(imgs[3]).val
    /\ op = "new"
    /\ arg = 0
    /\ ret = Permutation(imgs[3])

NextTriple ==
    \/ MulLeftOp
    \/ MulRightOp
    \/ MulUnitRightOp
    \/ MulUnitLeftOp

SpecTriple == InitTriple /\ [][NextTriple]_vars

\* C6: (p * q) * r == p * (q * r) for permutations of any mix of degrees,
\* and p * Permutation() == Permutation() * p == p.
C6_MulIsAssociativeWithUnit ==
    /\ op = "mul_left" =>
           ~ret.err /\ eq(ret.val, Then(mul(q, r), LAMBDA m : mul(p, m)).val)
    /\ op = "mul_right" =>
           ~ret.err /\ eq(ret.val, Then(mul(p, q), LAMBDA m : mul(m, r)).val)
    /\ op \in {"mul_unit_right", "mul_unit_left"} =>
           ~ret.err /\ eq(ret.val, p)

\* C6's case: a product of three permutations of degrees 2, 3 and 2 none of
\* whose adjacent pairs commute
C6_Witness ==
    /\ op = "mul_left" /\ ~ret.err
    /\ degree(p) < degree(q) /\ degree(r) < degree(q)
    /\ p # Identity /\ r # Identity
    /\ mul(p, q) # mul(q, p) /\ mul(q, r) # mul(r, q)

(***************************************************************************)
(* SpecFromCycles: a list of cycles, not necessarily disjoint, and         *)
(* from_cycles on it.                                                      *)
(***************************************************************************)
\* the tuples of distinct integers of 1..n: the arguments cycle accepts
Cycs(n) == {c \in TuplesUpTo(1..n, n) :
               \A j, k \in 1..Len(c) : c[j] = c[k] => j = k}
\* the lists of at most MaxCycles such cycles
CycleLists == TuplesUpTo(Cycs(MaxDeg), MaxCycles)

\* Permutation.from_cycles(*arg)
FromCyclesArgOp ==
    /\ op = "init"
    /\ op' = "from_cycles"
    /\ ret' = from_cycles(arg)
    /\ p' = ret'.val
    /\ UNCHANGED <<imgs, q, r, arg>>

InitFromCycles ==
    /\ arg \in CycleLists
    /\ imgs = <<>>
    /\ p = <<>> /\ q = <<>> /\ r = <<>>
    /\ op = "init"
    /\ ret = Return(<<>>)

NextFromCycles == FromCyclesArgOp

SpecFromCycles == InitFromCycles /\ [][NextFromCycles]_vars

\* where the cycle c sends x: to the element after x in c, the first after
\* the last; x itself when x is not in c
CycleAt(c, x) ==
    IF \E j \in 1..Len(c) : c[j] = x
    THEN LET j == CHOOSE j \in 1..Len(c) : c[j] = x IN c[(j % Len(c)) + 1]
    ELSE x

\* x sent through the cycles cs[k..], the rightmost first
RECURSIVE ApplyCycles(_, _, _)
ApplyCycles(cs, k, x) ==
    IF k > Len(cs) THEN x ELSE CycleAt(cs[k], ApplyCycles(cs, k + 1, x))

\* cycle(cs[k]) * (cycle(cs[k+1]) * ...), the product nested to the right
RECURSIVE CycleProduct(_, _)
CycleProduct(cs, k) ==
    IF k > Len(cs) THEN Permutation(<<>>)
    ELSE Then(cycle(cs[k]), LAMBDA c :
              Then(CycleProduct(cs, k + 1), LAMBDA m : mul(c, m)))

\* cs without its cycles of fewer than two elements
RECURSIVE DropTrivial(_)
DropTrivial(cs) ==
    IF cs = <<>> THEN <<>>
    ELSE IF Len(Head(cs)) < 2 THEN DropTrivial(Tail(cs))
    ELSE <<Head(cs)>> \o DropTrivial(Tail(cs))

\* C10: from_cycles(c0, ..., c(k-1)) is the product cycle(c0) * ... *
\* cycle(c(k-1)): the result sends x through the rightmost cycle first and
\* the leftmost last; the cycles need not be disjoint; cycles of fewer than
\* two elements contribute nothing; no cycle at all gives the identity.
C10_FromCyclesIsProductRightmostFirst ==
    op = "from_cycles" =>
        /\ ~ret.err
        /\ eq(ret.val, CycleProduct(arg, 1).val)
        /\ \A x \in 0..(MaxDeg + 1) : call(ret.val, x) = ApplyCycles(arg, 1, x)
        /\ DropTrivial(arg) # arg =>
               eq(ret.val, from_cycles(DropTrivial(arg)).val)
        /\ arg = <<>> => eq(ret.val, Identity)

\* C10's case: two cycles that share an element, whose product depends on
\* their order, have been multiplied
C10_Witness ==
    /\ op = "from_cycles" /\ ~ret.err
    /\ Len(arg) = 2
    /\ \E j \in 1..Len(arg[1]), k \in 1..Len(arg[2]) : arg[1][j] = arg[2][k]
    /\ from_cycles(<<arg[2], arg[1]>>) # ret

(***************************************************************************)
(* Spec: a session.  p is the Permutation the caller holds, at first       *)
(* Permutation(); each step calls one operation that produces a            *)
(* Permutation and, unless it raises, binds p to the result.  Operations   *)
(* whose result would exceed degree MaxDeg are left out.                   *)
(***************************************************************************)
RECURSIVE factorial(_)
factorial(n) == IF n <= 0 THEN 1 ELSE n * factorial(n - 1)

\* the argument lists handed to the constructor in a session
SessionImgs == TuplesUpTo(0..(MaxDeg + 1), MaxDeg)
\* the argument lists handed to cycle in a session: values below 1 and
\* repeated values included
SessionCycs == TuplesUpTo(0..MaxDeg, MaxDeg)
\* the argument lists that build the other operand of * in a session
SessionGoodImgs == GoodImgs(MaxDeg)
\* what Permutation.group(n) yields or raises, for each n of a session
SessionGroups == [n \in (0 - 1)..MaxDeg |-> group(n)]

\* the session leaves out a result of degree above MaxDeg
InBounds(o) == ~o.err => degree(o.val) <= MaxDeg

\* p = <call>: p is bound to the result unless the call raised
Bind(old, o) == IF o.err THEN old ELSE o.val

\* p = Permutation(*img)
New(img) ==
    /\ ret' = Permutation(img)
    /\ InBounds(ret')
    /\ op' = "new"
    /\ p' = Bind(p, ret')
    /\ UNCHANGED <<imgs, q, r, arg>>

\* p = Permutation.cycle(*cyc)
Cycle(cyc) ==
    /\ ret' = cycle(cyc)
    /\ InBounds(ret')
    /\ op' = "cycle"
    /\ p' = Bind(p, ret')
    /\ UNCHANGED <<imgs, q, r, arg>>

\* p = Permutation.from_cycles(*p.to_cycles(), cyc)
FromCycles(cyc) ==
    /\ ret' = from_cycles(Append(to_cycles(p), cyc))
    /\ InBounds(ret')
    /\ op' = "from_cycles"
    /\ p' = Bind(p, ret')
    /\ UNCHANGED <<imgs, q, r, arg>>

\* p = p * Permutation(*img)
Mul(img) ==
    /\ ret' = Then(Permutation(img), LAMBDA other : mul(p, other))
    /\ InBounds(ret')
    /\ op' = "mul"
    /\ p' = Bind(p, ret')
    /\ UNCHANGED <<imgs, q, r, arg>>

\* p = Permutation(*img) * p
RMul(img) ==
    /\ ret' = Then(Permutation(img), LAMBDA other : mul(other, p))
    /\ InBounds(ret')
    /\ op' = "rmul"
    /\ p' = Bind(p, ret')
    /\ UNCHANGED <<imgs, q, r, arg>>

\* p = p ** n
Pow(n) ==
    /\ ret' = pow(p, n)
    /\ InBounds(ret')
    /\ op' = "pow"
    /\ p' = Bind(p, ret')
    /\ UNCHANGED <<imgs, q, r, arg>>

\* p = p.inverse()
Inverse ==
    /\ ret' = inverse(p)
    /\ InBounds(ret')
    /\ op' = "inverse"
    /\ p' = Bind(p, ret')
    /\ UNCHANGED <<imgs, q, r, arg>>

\* p = Permutation.from_lehmer(x, n)
FromLehmer(x, n) ==
    /\ ret' = from_lehmer(x, n)
    /\ InBounds(ret')
    /\ op' = "from_lehmer"
    /\ p' = Bind(p, ret')
    /\ UNCHANGED <<imgs, q, r, arg>>

\* p = Permutation.from_left_lehmer(x)
FromLeftLehmer(x) ==
    /\ ret' = from_left_lehmer(x)
    /\ InBounds(ret')
    /\ op' = "from_left_lehmer"
    /\ p' = Bind(p, ret')
    /\ UNCHANGED <<imgs, q, r, arg>>

\* p = p.next_permutation()
NextPermutation ==
    /\ ret' = next_permutation(p)
    /\ InBounds(ret')
    /\ op' = "next_permutation"
    /\ p' = Bind(p, ret')
    /\ UNCHANGED <<imgs, q, r, arg>>

\* p = p.prev_permutation()
PrevPermutation ==
    /\ ret' = prev_permutation(p)
    /\ InBounds(ret')
    /\ op' = "prev_permutation"
    /\ p' = Bind(p, ret')
    /\ UNCHANGED <<imgs, q, r, arg>>

\* the k-th Permutation that Permutation.group(n) yields, or the ValueError
\* the call raises
group_item(n, k) ==
    Then(SessionGroups[n], LAMBDA yielded : Return(yielded[k]))

\* p = list(Permutation.group(n))[k - 1]
Group(n, k) ==
    /\ SessionGroups[n].err \/ k <= Len(SessionGroups[n].val)
    /\ ret' = group_item(n, k)
    /\ InBounds(ret')
    /\ op' = "group"
    /\ p' = Bind(p, ret')
    /\ UNCHANGED <<imgs, q, r, arg>>

Init ==
    /\ imgs = <<>>
    /\ p = Permutation(<<>>).val
    /\ q = <<>> /\ r = <<>>
    /\ op = "init"
    /\ arg = 0
    /\ ret = Permutation(<<>>)

Next ==
    \/ \E img \in SessionImgs : New(img)
    \/ \E cyc \in SessionCycs : Cycle(cyc)
    \/ \E cyc \in SessionCycs : FromCycles(cyc)
    \/ \E img \in SessionGoodImgs : Mul(img)
    \/ \E img \in SessionGoodImgs : RMul(img)
    \/ \E n \in (0 - MaxExp)..MaxExp : Pow(n)
    \/ Inverse
    \/ \E n \in 0..MaxDeg : \E x \in (0 - 1)..factorial(n) : FromLehmer(x, n)
    \/ \E x \in (0 - 1)..(factorial(MaxDeg) - 1) : FromLeftLehmer(x)
    \/ NextPermutation
    \/ PrevPermutation
    \/ \E n \in (0 - 1)..MaxDeg : \E k \in 1..factorial(MaxDeg) : Group(n, k)

Spec == Init /\ [][Next]_vars

\* C1: every Permutation a sequence of public operations produces stores a
\* bijection of 1..degree onto itself with no trailing fixed point: degree
\* is 0 or p(degree) != degree.
C1_StoredImageIsCanonicalBijection ==
    /\ IsWord(p)
    /\ degree(p) = 0 \/ p[degree(p)] # degree(p)
    /\ ~ret.err => ret.val = p

\* C1's case: a permutation of the largest degree produced by stepping back
\* from one that an earlier operation produced
C1_Witness ==
    op = "prev_permutation" /\ ~ret.err /\ degree(p) = MaxDeg

(***************************************************************************)
(* SpecCycle: one argument list of Permutation.cycle, values below 1 and   *)
(* repeated values included; cycle on it and on its rotations, and         *)
(* from_cycles on a list of cycles that contains it.                       *)
(***************************************************************************)
\* the argument lists handed to cycle
CycleArgs == TuplesUpTo((0 - 1)..(MaxDeg + 1), MaxDeg)
\* the cycles put before and after the argument list in a call of from_cycles
CyclesAround == {<<>>, <<<<2, 1>>>>}

\* p = Permutation.cycle(*arg)
CycleArgOp ==
    /\ op = "init"
    /\ op' = "cycle"
    /\ ret' = cycle(arg)
    /\ p' = ret'.val
    /\ UNCHANGED <<imgs, q, r, arg>>

\* q = p; p = Permutation.cycle(*arg[1:], arg[0]): the same cycle written
\* from its second element
CycleRotateOp ==
    /\ op \in {"cycle", "rotate"}
    /\ ~ret.err
    /\ arg # <<>>
    /\ op' = "rotate"
    /\ arg' = Tail(arg) \o <<Head(arg)>>
    /\ q' = p
    /\ ret' = cycle(arg')
    /\ p' = ret'.val
    /\ UNCHANGED <<imgs, r>>

\* Permutation.from_cycles(*pre, arg, *post); arg becomes the whole list
CycleInFromCyclesOp(pre, post) ==
    /\ op = "cycle"
    /\ op' = "from_cycles"
    /\ arg' = pre \o <<arg>> \o post
    /\ ret' = from_cycles(arg')
    /\ UNCHANGED <<imgs, p, q, r>>

InitCycle ==
    /\ arg \in CycleArgs
    /\ imgs = <<>>
    /\ p = <<>> /\ q = <<>> /\ r = <<>>
    /\ op = "init"
    /\ ret = Return(<<>>)

NextCycle ==
    \/ CycleArgOp
    \/ CycleRotateOp
    \/ \E pre \in CyclesAround, post \in CyclesAround :
           CycleInFromCyclesOp(pre, post)

SpecCycle == InitCycle /\ [][NextCycle]_vars

\* some element of the argument list cyc is below 1 or occurs twice in it
BadCycle(cyc) ==
    \/ \E k \in 1..Len(cyc) : cyc[k] < 1
    \/ \E j, k \in 1..Len(cyc) : j # k /\ cyc[j] = cyc[k]

\* C11: cycle(v0, ..., v(k-1)) raises iff some argument is below 1 or occurs
\* twice, and from_cycles raises whenever one of its cycles does; otherwise
\* the result sends v(i) to v((i+1) mod k) and fixes every other integer, so
\* zero or one argument gives the identity and every rotation of the
\* argument list gives the same permutation.
C11_CycleContract ==
    /\ op = "cycle" =>
           /\ ret.err <=> BadCycle(arg)
           /\ ~ret.err =>
                  /\ \A i \in 1..Len(arg) :
                         call(ret.val, arg[i]) = arg[(i % Len(arg)) + 1]
                  /\ \A x \in XRange :
                         (\A i \in 1..Len(arg) : arg[i] # x) =>
                             call(ret.val, x) = x
                  /\ Len(arg) <= 1 => ret.val = Identity
    /\ op = "rotate" => ~ret.err /\ eq(ret.val, q)
    /\ op = "from_cycles" =>
           ((\E k \in 1..Len(arg) : BadCycle(arg[k])) => ret.err)

\* C11's case: a cycle of three elements was built again from its rotation
C11_Witness ==
    /\ op = "rotate" /\ ~ret.err
    /\ Len(arg) = 3
    /\ p # Identity

(***************************************************************************)
(* SpecProps: one input, either a Permutation p or an integer code with    *)
(* the degree n it is taken against, and the operations that turn the one  *)
(* into the other: the Lehmer codes and their inverses, the successor and  *)
(* predecessor, the powers, the order and the parity.  An operation on p   *)
(* leaves p as it is; q is the Permutation the last operation returned.    *)
(***************************************************************************)
\* the codes x and degrees n handed to from_left_lehmer(x), from_lehmer(x, n)
Codes == ((0 - 2)..(factorial(MaxLen) + 1)) \X (0..MaxLen)
\* the degrees handed to lehmer
LehmerDegrees == (0 - 1)..MaxLen
\* the exponents handed to **: twice MaxExp, so that some have a 0 bit
\* above their lowest 1 bit
Exponents == (0 - 2 * MaxExp)..(2 * MaxExp)

\* the input is a Permutation
HasP == imgs # <<>>

\* p.left_lehmer()
LeftLehmerOp ==
    /\ HasP
    /\ op' = "left_lehmer"
    /\ ret' = left_lehmer(p)
    /\ arg' = <<>>
    /\ q' = <<>>
    /\ UNCHANGED <<imgs, p, r>>

\* Permutation.from_left_lehmer(x), x the code left_lehmer just returned
FromLeftLehmerOfOp ==
    /\ HasP
    /\ op = "left_lehmer" /\ ~ret.err
    /\ op' = "left_lehmer_inv"
    /\ arg' = ret.val
    /\ ret' = from_left_lehmer(ret.val)
    /\ q' = ret'.val
    /\ UNCHANGED <<imgs, p, r>>

\* p.lehmer(n)
LehmerOp(n) ==
    /\ HasP
    /\ op' = "lehmer"
    /\ arg' = n
    /\ ret' = lehmer(p, n)
    /\ q' = <<>>
    /\ UNCHANGED <<imgs, p, r>>

\* Permutation.from_lehmer(x, n), x the code lehmer(n) just returned
FromLehmerOfOp ==
    /\ HasP
    /\ op = "lehmer" /\ ~ret.err
    /\ op' = "lehmer_inv"
    /\ ret' = from_lehmer(ret.val, arg)
    /\ q' = ret'.val
    /\ UNCHANGED <<imgs, p, r, arg>>

\* q = p.next_permutation()
NextPermutationOp ==
    /\ HasP
    /\ op' = "next_permutation"
    /\ ret' = next_permutation(p)
    /\ arg' = <<>>
    /\ q' = ret'.val
    /\ UNCHANGED <<imgs, p, r>>

\* q.prev_permutation(), q the Permutation next_permutation just returned
PrevOfNextOp ==
    /\ HasP
    /\ op = "next_permutation" /\ ~ret.err
    /\ op' = "next_prev"
    /\ ret' = prev_permutation(q)
    /\ UNCHANGED <<imgs, p, q, r, arg>>

\* q = p.prev_permutation()
PrevPermutationOp ==
    /\ HasP
    /\ op' = "prev_permutation"
    /\ ret' = prev_permutation(p)
    /\ arg' = <<>>
    /\ q' = ret'.val
    /\ UNCHANGED <<imgs, p, r>>

\* q.next_permutation(), q the Permutation prev_permutation just returned
NextOfPrevOp ==
    /\ HasP
    /\ op = "prev_permutation" /\ ~ret.err
    /\ op' = "prev_next"
    /\ ret' = next_permutation(q)
    /\ UNCHANGED <<imgs, p, q, r, arg>>

\* q = p ** n
PowOp(n) ==
    /\ HasP
    /\ op' = "pow"
    /\ arg' = n
    /\ ret' = pow(p, n)
    /\ q' = ret'.val
    /\ UNCHANGED <<imgs, p, r>>

\* p.order
OrderOp ==
    /\ HasP
    /\ op' = "order"
    /\ ret' = Return(order(p))
    /\ arg' = <<>>
    /\ q' = <<>>
    /\ UNCHANGED <<imgs, p, r>>

\* p.is_even
IsEvenOp ==
    /\ HasP
    /\ op' = "is_even"
    /\ ret' = Return(is_even(p))
    /\ arg' = <<>>
    /\ q' = <<>>
    /\ UNCHANGED <<imgs, p, r>>

\* p.is_odd
IsOddOp ==
    /\ HasP
    /\ op' = "is_odd"
    /\ ret' = Return(is_odd(p))
    /\ arg' = <<>>
    /\ q' = <<>>
    /\ UNCHANGED <<imgs, p, r>>

\* p.sign
SignOp ==
    /\ HasP
    /\ op' = "sign"
    /\ ret' = Return(sign(p))
    /\ arg' = <<>>
    /\ q' = <<>>
    /\ UNCHANGED <<imgs, p, r>>

\* p.inversions()
InversionsOp ==
    /\ HasP
    /\ op' = "inversions"
    /\ ret' = inversions(p)
    /\ arg' = <<>>
    /\ q' = <<>>
    /\ UNCHANGED <<imgs, p, r>>

\* p = Permutation.from_left_lehmer(x), x the code of the input
FromLeftLehmerArgOp ==
    /\ ~HasP
    /\ op = "init"
    /\ op' = "from_left_lehmer"
    /\ ret' = from_left_lehmer(arg[1])
    /\ p' = ret'.val
    /\ UNCHANGED <<imgs, q, r, arg>>

\* p.left_lehmer(), p the Permutation from_left_lehmer just returned
LeftLehmerOfOp ==
    /\ ~HasP
    /\ op = "from_left_lehmer" /\ ~ret.err
    /\ op' = "from_left_lehmer_inv"
    /\ ret' = left_lehmer(p)
    /\ UNCHANGED <<imgs, p, q, r, arg>>

\* p = Permutation.from_lehmer(x, n), x and n the code and degree of the input
FromLehmerArgOp ==
    /\ ~HasP
    /\ op = "init"
    /\ op' = "from_lehmer"
    /\ ret' = from_lehmer(arg[1], arg[2])
    /\ p' = ret'.val
    /\ UNCHANGED <<imgs, q, r, arg>>

\* p.lehmer(n), p the Permutation from_lehmer(x, n) just returned
LehmerOfOp ==
    /\ ~HasP
    /\ op = "from_lehmer" /\ ~ret.err
    /\ op' = "from_lehmer_inv"
    /\ ret' = lehmer(p, arg[2])
    /\ UNCHANGED <<imgs, p, q, r, arg>>

InitProps ==
    /\ \/ /\ imgs \in {<<i>> : i \in GoodImgs(MaxLen)}
          /\ p = Permutation(imgs[1]).val
          /\ op = "new"
          /\ arg = <<>>
          /\ ret = Permutation(imgs[1])
       \/ /\ imgs = <<>>
          /\ p = <<>>
          /\ op = "init"
          /\ arg \in Codes
          /\ ret = Return(<<>>)
    /\ q = <<>> /\ r = <<>>

NextProps ==
    \/ LeftLehmerOp
    \/ FromLeftLehmerOfOp
    \/ \E n \in LehmerDegrees : LehmerOp(n)
    \/ FromLehmerOfOp
    \/ NextPermutationOp
    \/ PrevOfNextOp
    \/ PrevPermutationOp
    \/ NextOfPrevOp
    \/ \E n \in Exponents : PowOp(n)
    \/ OrderOp
    \/ IsEvenOp
    \/ IsOddOp
    \/ SignOp
    \/ InversionsOp
    \/ FromLeftLehmerArgOp
    \/ LeftLehmerOfOp
    \/ FromLehmerArgOp
    \/ LehmerOfOp

SpecProps == InitProps /\ [][NextProps]_vars

\* C12: left_lehmer and from_left_lehmer are mutually inverse and take no
\* degree: from_left_lehmer(left_lehmer(p)) == p for every permutation p,
\* left_lehmer(from_left_lehmer(x)) == x for every x >= 0, the identity has
\* code 0, and from_left_lehmer(x) raises iff x < 0.
C12_LeftLehmerIsBijection ==
    /\ op = "left_lehmer" =>
           /\ ~ret.err /\ ret.val >= 0
           /\ ret.val = 0 <=> p = Identity
    /\ op = "left_lehmer_inv" => ~ret.err /\ eq(ret.val, p)
    /\ op = "from_left_lehmer" =>
           /\ ret.err <=> arg[1] < 0
           /\ arg[1] = 0 => ret.val = Identity
    /\ op = "from_left_lehmer_inv" => ret = Return(arg[1])

\* C12's case: a permutation of the largest degree was coded and the code
\* decoded
C12_Witness ==
    /\ op = "left_lehmer_inv" /\ ~ret.err
    /\ degree(p) = MaxLen
    /\ arg > 0

\* the image of the permutation map descends throughout: no position holds
\* more than the one before it
Descending(map) == \A i \in 2..Len(map) : map[i] < map[i - 1]

\* C13: next_permutation never raises and is the successor in left-Lehmer
\* order: the left_lehmer code of p.next_permutation() is p.left_lehmer() + 1
\* for every p; for the identity and for every descending image the result
\* is the transposition of d and d + 1, d = max(degree, 1).
C13_NextPermutationIsSuccessor ==
    op = "next_permutation" =>
        /\ ~ret.err
        /\ left_lehmer(ret.val) = Return(left_lehmer(p).val + 1)
        /\ Descending(p) =>
               LET d == IF degree(p) >= 1 THEN degree(p) ELSE 1
               IN  /\ call(ret.val, d) = d + 1
                   /\ call(ret.val, d + 1) = d
                   /\ \A x \in XRange \ {d, d + 1} : call(ret.val, x) = x

\* C13's case: the successor of the descending image of the largest degree
C13_Witness ==
    /\ op = "next_permutation" /\ ~ret.err
    /\ degree(p) = MaxLen /\ Descending(p)
    /\ degree(ret.val) = MaxLen + 1

\* the first ascent of the image map, scanning from the second position up
FirstAscent(map) ==
    CHOOSE i \in 2..Len(map) :
        /\ map[i] > map[i - 1]
        /\ \A k \in 2..(i - 1) : map[k] < map[k - 1]

\* the positions left of i that hold less than position i does
SmallerLeft(map, i) == {k \in 1..(i - 1) : map[k] < map[i]}

\* the position of the smallest, and of the largest, element left of i that
\* is less than map[i]
SmallestLeft(map, i) ==
    CHOOSE k \in SmallerLeft(map, i) :
        \A l \in SmallerLeft(map, i) : map[k] <= map[l]

LargestLeft(map, i) ==
    CHOOSE k \in SmallerLeft(map, i) :
        \A l \in SmallerLeft(map, i) : map[k] >= map[l]

\* the image map with positions i and j exchanged, j < i, and the prefix
\* before position i then reversed
SwappedThenReversed(map, i, j) ==
    [k \in 1..Len(map) |->
        IF k = i THEN map[j]
        ELSE IF k > i THEN map[k]
        ELSE IF i - k = j THEN map[i]
        ELSE map[i - k]]

\* C28 as stated: when the image has a first ascent at i, next_permutation
\* exchanges image[i] with the smallest element to its left that is less
\* than image[i], and then reverses the prefix before position i.
C28_SwapsSmallestSmaller ==
    (op = "next_permutation" /\ ~Descending(p)) =>
        LET i == FirstAscent(p)
        IN  /\ ~ret.err
            /\ ret.val = SwappedThenReversed(p, i, SmallestLeft(p, i))

\* C28, amended: when the image has a first ascent at i, next_permutation
\* exchanges image[i] with the largest element to its left that is less
\* than image[i], which is the first such element from the left, and then
\* reverses the prefix before position i.
C28_SwapsLargestSmaller ==
    (op = "next_permutation" /\ ~Descending(p)) =>
        LET i == FirstAscent(p)
            j == LargestLeft(p, i)
        IN  /\ ~ret.err
            /\ \A k \in 1..(j - 1) : p[k] > p[i]
            /\ ret.val = SwappedThenReversed(p, i, j)

\* C28's case: the successor of an image with several elements left of its
\* first ascent that are less than the element there
C28_Witness ==
    /\ op = "next_permutation" /\ ~ret.err
    /\ ~Descending(p)
    /\ Cardinality(SmallerLeft(p, FirstAscent(p))) >= 2
    /\ Cardinality(SmallerLeft(p, FirstAscent(p))) < FirstAscent(p) - 1

(***************************************************************************)
(* SpecGroup: Permutation.group(n) and the generator sn() it returns, run  *)
(* one next() at a time by a consumer that iterates it to its end.  p is   *)
(* the local p of the generator frame, r the Permutations yielded so far,  *)
(* op where the generator stands: "created" before the first next(),       *)
(* "yielded" while suspended at the yield, "done" once it has returned;    *)
(* "raised" when group(n) itself raised.                                   *)
(***************************************************************************)
\* the degrees handed to group
GroupDegrees == (0 - 1)..(MaxLen + 1)

\* a plausible slip: < for <= in the loop condition
sn_resume_strict(n, pos, cur) ==
    Then(IF pos = "created" THEN Permutation(<<>>) ELSE next_permutation(cur),
         LAMBDA nxt : IF degree(nxt) < n THEN Return(nxt)
                      ELSE Raise("StopIteration"))

\* the body of sn() from where it stands to its next yield or to its end:
\* p = cls() at the start, p = p.next_permutation() after a yield, then the
\* test of the while loop
sn_resume(n, pos, cur) ==
    Then(IF pos = "created" THEN Permutation(<<>>) ELSE next_permutation(cur),
         LAMBDA nxt : IF degree(nxt) <= n THEN Return(nxt)
                      ELSE Raise("StopIteration"))

\* a plausible slip: group is itself the generator, so that the call only
\* creates it and the test of n waits for the first next(g)
GroupCallOp_deferred ==
    /\ op = "init"
    /\ ret' = Return(<<>>)
    /\ op' = "created"
    /\ UNCHANGED <<imgs, p, q, r, arg>>

\* g = Permutation.group(n)
GroupCallOp ==
    /\ op = "init"
    /\ ret' = IF arg < 0 THEN Raise("ValueError") ELSE Return(<<>>)
    /\ op' = IF ret'.err THEN "raised" ELSE "created"
    /\ UNCHANGED <<imgs, p, q, r, arg>>

\* next(g)
GroupNextOp ==
    /\ op \in {"created", "yielded"}
    /\ ret' = sn_resume(arg, op, p)
    /\ op' = IF ret'.err THEN "done" ELSE "yielded"
    /\ p' = IF ret'.err THEN p ELSE ret'.val
    /\ r' = IF ret'.err THEN r ELSE Append(r, ret'.val)
    /\ UNCHANGED <<imgs, q, arg>>

InitGroup ==
    /\ arg \in GroupDegrees
    /\ imgs = <<>>
    /\ p = <<>> /\ q = <<>> /\ r = <<>>
    /\ op = "init"
    /\ ret = Return(<<>>)

NextGroup ==
    \/ GroupCallOp
    \/ GroupNextOp

\* the consumer iterates the generator until it is exhausted
SpecGroup == InitGroup /\ [][NextGroup]_vars /\ WF_vars(NextGroup)

\* every permutation of degree at most n
AllPerms(n) ==
    {Permutation(w).val :
        w \in {f \in [1..n -> 1..n] : \A j, k \in 1..n : f[j] = f[k] => j = k}}

\* what C14 says of the elements yielded so far and, at the end, of them all
C14_Yielded ==
    /\ op = "raised" <=> (op # "init" /\ arg < 0)
    /\ op = "yielded" =>
           /\ ~ret.err /\ ret.val = r[Len(r)]
           /\ r[1] = Identity
           /\ degree(r[Len(r)]) <= arg
           /\ left_lehmer(r[Len(r)]) = Return(Len(r) - 1)
    /\ op = "done" =>
           /\ ret.err /\ ret.msg = "StopIteration"
           /\ Len(r) = factorial(arg)
           /\ {r[k] : k \in 1..Len(r)} = AllPerms(arg)
           /\ \A j, k \in 1..Len(r) : r[j] = r[k] => j = k
           /\ arg <= 1 => r = <<Identity>>

\* C14: for every n >= 0 the sequence group(n) produces starts at the
\* identity, its k-th element (0-based) has left_lehmer code k, it holds
\* every permutation of degree at most n exactly once and nothing else, n!
\* elements in all, and it ends after the last of them.
C14_GroupEnumeratesSn ==
    /\ []C14_Yielded
    /\ (op = "created") ~> (op = "done")

\* C14's case: the generator for the largest n has yielded n! elements and
\* has ended
C14_Witness ==
    /\ op = "done"
    /\ arg = MaxLen + 1
    /\ Len(r) = factorial(MaxLen + 1)

\* C27: group(n) with n < 0 fails at once: the call to group itself raises
\* ValueError, no generator is returned, and no element is ever requested
\* of it or produced by it.
C27_GroupFailsImmediately ==
    /\ arg < 0 =>
           /\ op \in {"init", "raised"}
           /\ r = <<>>
           /\ op = "raised" => ret = Raise("ValueError")
    /\ op = "raised" => arg < 0

\* C27's case: group was called with a negative n
C27_Witness == op = "raised" /\ arg < 0 /\ ret.err

\* C15: prev_permutation undoes next_permutation and fails on the identity
\* only: it raises iff p is the identity; otherwise it returns q with
\* q.next_permutation() == p and q.left_lehmer() == p.left_lehmer() - 1; and
\* p.next_permutation().prev_permutation() == p for every p.
C15_PrevPermutationIsInverse ==
    /\ op = "prev_permutation" =>
           /\ ret.err <=> p = Identity
           /\ ~ret.err =>
                  /\ next_permutation(ret.val) = Return(p)
                  /\ left_lehmer(ret.val) = Return(left_lehmer(p).val - 1)
    /\ op = "prev_next" => ~ret.err /\ eq(ret.val, p)
    /\ op = "next_prev" => ~ret.err /\ eq(ret.val, p)

\* C15's case: the successor of a descending image, which has one degree
\* more, was stepped back
C15_Witness ==
    /\ op = "next_prev" /\ ~ret.err
    /\ degree(p) = MaxLen
    /\ degree(q) = MaxLen + 1

\* the permutations of degree at most n, for each n handed to lehmer
PermsUpTo == [n \in 0..MaxLen |-> AllPerms(n)]

\* the word a comes before the word b, of the same length, in lexicographic
\* order
LexLess(a, b) ==
    \E k \in 1..Len(a) : a[k] < b[k] /\ \A j \in 1..(k - 1) : a[j] = b[j]

\* the number of permutations of degree at most n whose word of length n
\* comes before that of map
LexRank(map, n) ==
    Cardinality({s \in PermsUpTo[n] :
                    LexLess(to_image(s, <<n>>).val, to_image(map, <<n>>).val)})

\* C16: for every n >= 0 and every p of degree at most n, lehmer(p, n) is the
\* zero-based rank of p among the permutations of degree at most n ordered
\* lexicographically by their words to_image(n).
C16_LehmerIsLexRank ==
    (op = "lehmer" /\ arg >= 0 /\ degree(p) <= arg) =>
        /\ ~ret.err
        /\ ret.val = LexRank(p, arg)

\* C16's case: the rank, not 0, of a permutation among those of a larger
\* degree than its own
C16_Witness ==
    /\ op = "lehmer" /\ ~ret.err
    /\ arg = MaxLen /\ degree(p) < arg
    /\ ret.val > 0

\* C17: for every n >= 0, lehmer(., n) and from_lehmer(., n) are mutually
\* inverse between the permutations of degree at most n and 0..n!-1:
\* from_lehmer(lehmer(p, n), n) == p whenever n >= degree(p),
\* lehmer(from_lehmer(x, n), n) == x whenever 0 <= x < n!, from_lehmer(x, n)
\* raises iff x < 0 or x >= n!, and lehmer(p, n) raises iff n < degree(p).
C17_LehmerIsBijection ==
    /\ op = "lehmer" =>
           /\ ret.err <=> arg < degree(p)
           /\ ~ret.err => 0 <= ret.val /\ ret.val < factorial(arg)
    /\ op = "lehmer_inv" => ~ret.err /\ eq(ret.val, p)
    /\ op = "from_lehmer" =>
           /\ ret.err <=> (arg[1] < 0 \/ arg[1] >= factorial(arg[2]))
           /\ ~ret.err => degree(ret.val) <= arg[2]
    /\ op = "from_lehmer_inv" => ret = Return(arg[1])

\* C17's case: the last code of the largest degree was decoded and the
\* result coded again
C17_Witness ==
    /\ op = "from_lehmer_inv" /\ ~ret.err
    /\ arg[2] = MaxLen
    /\ arg[1] = factorial(MaxLen) - 1

\* the product of n copies of map, multiplied one at a time
RECURSIVE Product(_, _)
Product(map, n) ==
    IF n = 0 THEN Identity ELSE mul(Product(map, n - 1), map).val

\* C18: for every permutation p and integer n, p ** 0 is the identity; for
\* n > 0 the square-and-multiply loop returns the product of n copies of p,
\* so p ** n == p ** (n-1) * p; for n < 0, p ** n == inverse(p) ** (-n); no
\* exponent raises.
C18_PowIsRepeatedProduct ==
    op = "pow" =>
        /\ ~ret.err
        /\ arg = 0 => ret.val = Identity
        /\ arg > 0 =>
               /\ ret.val = Product(p, arg)
               /\ ret = Then(pow(p, arg - 1), LAMBDA m : mul(m, p))
        /\ arg < 0 =>
               /\ ret.val = Product(inverse(p).val, 0 - arg)
               /\ ret = Then(inverse(p), LAMBDA i : pow(i, 0 - arg))

\* C18's case: an exponent whose binary digits are 101, so that the loop
\* both skips and takes a multiplication, on a permutation of order above 2
C18_Witness ==
    /\ op = "pow" /\ ~ret.err
    /\ arg = 5
    /\ mul(p, p).val # Identity
    /\ ret.val # p

\* C19: order(p), the least common multiple of the lengths of the cycles of
\* to_cycles(p), 1 for the identity, is the least positive k with p ** k the
\* identity.
C19_OrderIsLeastPower ==
    op = "order" =>
        /\ ~ret.err
        /\ ret.val >= 1
        /\ p = Identity => ret.val = 1
        /\ pow(p, ret.val) = Return(Identity)
        /\ \A k \in 1..(ret.val - 1) : pow(p, k) # Return(Identity)

\* C19's case: two cycles whose lengths share a factor, where the least
\* common multiple is not the product of the lengths
C19_Witness ==
    /\ op = "order" /\ ~ret.err
    /\ Len(to_cycles(p)) = 2
    /\ ret.val = 2

\* the inversions of map: the pairs of positions whose images stand in the
\* opposite order
InversionPairs(map) ==
    {pr \in (1..Len(map)) \X (1..Len(map)) :
        pr[1] < pr[2] /\ map[pr[1]] > map[pr[2]]}

\* the transpositions of 1..n
Transpositions(n) ==
    {cycle(<<pr[1], pr[2]>>).val :
        pr \in {s \in (1..n) \X (1..n) : s[1] < s[2]}}

\* the products of exactly k transpositions of 1..n
RECURSIVE TranspositionProducts(_, _)
TranspositionProducts(n, k) ==
    IF k = 0 THEN {Identity}
    ELSE {mul(a, t).val :
             a \in TranspositionProducts(n, k - 1), t \in Transpositions(n)}

\* the products of an even number, up to MaxLen, of transpositions of
\* 1..MaxLen
EvenProducts ==
    UNION {TranspositionProducts(MaxLen, k) :
              k \in {j \in 0..MaxLen : j % 2 = 0}}

\* the products of an odd number, up to MaxLen + 1, of such transpositions
OddProducts ==
    UNION {TranspositionProducts(MaxLen, k) :
              k \in {j \in 0..(MaxLen + 1) : j % 2 = 1}}

\* C20: is_even(p), the parity of the sum of len(c) - 1 over the cycles c of
\* to_cycles(p), is true exactly when p is a product of an even number of
\* transpositions, equivalently when inversions(p) is even; is_odd(p) is its
\* negation; sign(p) is 1 when p is even and -1 when it is odd.
C20_ParityIsEvenness ==
    /\ op = "is_even" =>
           /\ ret.val <=> p \in EvenProducts
           /\ ret.val <=> p \notin OddProducts
           /\ ret.val <=> inversions(p).val % 2 = 0
           /\ ret.val <=> Cardinality(InversionPairs(p)) % 2 = 0
    /\ op = "is_odd" => (ret.val <=> ~is_even(p))
    /\ op = "sign" => ret.val = (IF is_even(p) THEN 1 ELSE 0 - 1)
    /\ op = "inversions" =>
           ret = Return(Cardinality(InversionPairs(p)))

\* C20's case: the parity of an even permutation, not the identity, with a
\* cycle of odd length and so of even parity
C20_Witness ==
    /\ op = "is_even" /\ ret.val
    /\ Len(to_cycles(p)) = 1
    /\ Len(to_cycles(p)[1]) = 3

(***************************************************************************)
(* SpecPermute: one Permutation p and one sequence xs, and p.permute(xs).  *)
(***************************************************************************)
\* the sequences handed to permute: letters, some of them equal, of every
\* length up to one more than the largest degree
PermuteSeqs == TuplesUpTo({"a", "b"}, MaxLen + 1)

\* p.permute(xs)
PermuteOp ==
    /\ op = "new"
    /\ op' = "permute"
    /\ ret' = permute(p, arg)
    /\ UNCHANGED <<imgs, p, q, r, arg>>

\* p.permute(range(1, n + 1))
PermuteRangeOp(n) ==
    /\ op = "new"
    /\ op' = "permute_range"
    /\ arg' = [k \in 1..n |-> k]
    /\ ret' = permute(p, arg')
    /\ UNCHANGED <<imgs, p, q, r>>

InitPermute ==
    /\ imgs \in {<<i>> : i \in GoodImgs(MaxLen)}
    /\ p = Permutation(imgs[1]).val
    /\ q = <<>> /\ r = <<>>
    /\ op = "new"
    /\ arg \in PermuteSeqs
    /\ ret = Permutation(imgs[1])

NextPermute ==
    \/ PermuteOp
    \/ \E n \in 0..(MaxLen + 1) : PermuteRangeOp(n)

SpecPermute == InitPermute /\ [][NextPermute]_vars

\* C23: permute(xs) raises iff len(xs) < degree(p); otherwise it returns a
\* sequence out of the length of xs with out[p(i)-1] == xs[i-1] for every
\* 1 <= i <= len(xs), the elements beyond the degree staying in place, so
\* that p.permute(1..n) is p.inverse().to_image(n) for every n >= degree(p).
C23_PermuteMovesItoPi ==
    op \in {"permute", "permute_range"} =>
        /\ ret.err <=> Len(arg) < degree(p)
        /\ ~ret.err =>
               /\ Len(ret.val) = Len(arg)
               /\ \A i \in 1..Len(arg) : ret.val[call(p, i)] = arg[i]
               /\ \A i \in (degree(p) + 1)..Len(arg) : ret.val[i] = arg[i]
               /\ op = "permute_range" =>
                      ret.val = to_image(inverse(p).val, <<Len(arg)>>).val

\* C23's case: a permutation that is not its own inverse has reordered a
\* sequence longer than its degree
C23_Witness ==
    /\ op = "permute" /\ ~ret.err
    /\ Len(arg) > degree(p)
    /\ inverse(p).val # p
    /\ ret.val # arg

(***************************************************************************)
(* SpecDisjoint: two Permutations and isdisjoint in both directions.       *)
(***************************************************************************)
\* p.isdisjoint(q)
IsDisjointOp ==
    /\ op = "new"
    /\ op' = "isdisjoint"
    /\ ret' = Return(isdisjoint(p, q))
    /\ UNCHANGED <<imgs, p, q, r, arg>>

\* q.isdisjoint(p)
IsDisjointSwappedOp ==
    /\ op = "new"
    /\ op' = "isdisjoint_swapped"
    /\ ret' = Return(isdisjoint(q, p))
    /\ UNCHANGED <<imgs, p, q, r, arg>>

NextDisjoint ==
    \/ IsDisjointOp
    \/ IsDisjointSwappedOp

SpecDisjoint == InitPair /\ [][NextDisjoint]_vars

\* the integers map moves
Moved(map) == {x \in XRange : call(map, x) # x}

\* C24: p.isdisjoint(q) is True iff no integer is moved by both p and q; the
\* result is the same with p and q exchanged; the identity is disjoint from
\* every permutation, itself included.
C24_IsDisjointIsNoCommonMovedPoint ==
    op \in {"isdisjoint", "isdisjoint_swapped"} =>
        /\ ~ret.err
        /\ ret.val <=> Moved(p) \cap Moved(q) = {}
        /\ (p = Identity \/ q = Identity) => ret.val

\* C24's case: two permutations, neither the identity, of different degrees,
\* that move no common integer
C24_Witness ==
    /\ op = "isdisjoint" /\ ret.val
    /\ p # Identity /\ q # Identity
    /\ degree(p) < degree(q)

(***************************************************************************)
(* SpecInversions: one Permutation p, p.right_inversion_count(n) for n     *)
(* None or an integer, and p.inversions().                                 *)
(***************************************************************************)
\* the arguments handed to right_inversion_count: <<>> is None
InversionDegrees == {<<>>} \cup {<<n>> : n \in (0 - 1)..(MaxLen + 1)}

\* p.right_inversion_count(n)
RightInversionCountOp(n) ==
    /\ op' = "right_inversion_count"
    /\ arg' = n
    /\ ret' = right_inversion_count(p, n)
    /\ UNCHANGED <<imgs, p, q, r>>

InitInversions ==
    /\ imgs \in {<<i>> : i \in GoodImgs(MaxLen)}
    /\ p = Permutation(imgs[1]).val
    /\ q = <<>> /\ r = <<>>
    /\ op = "new"
    /\ arg = <<>>
    /\ ret = Permutation(imgs[1])

NextInversions ==
    \/ \E n \in InversionDegrees : RightInversionCountOp(n)
    \/ InversionsOp

SpecInversions == InitInversions /\ [][NextInversions]_vars

\* the number of x with i < x <= m and map(x) < map(i)
RightInversions(map, i, m) ==
    Cardinality({x \in (i + 1)..m : call(map, x) < call(map, i)})

\* C25: for every n >= degree(p), right_inversion_count(n) returns n entries,
\* the entry at 0-based index i being the number of x with i+1 < x <= n and
\* p(x) < p(i+1), so between 0 and n-1-i, the last one 0; it raises when
\* n < degree(p); inversions(p) is the sum of the entries at n = degree(p),
\* the number of pairs a < b with p(a) > p(b).
C25_RightInversionCountCounts ==
    /\ op = "right_inversion_count" =>
           LET m == IF arg = <<>> THEN degree(p) ELSE arg[1]
           IN  /\ ret.err <=> m < degree(p)
               /\ ~ret.err =>
                      /\ Len(ret.val) = m
                      /\ \A i \in 1..m :
                             /\ ret.val[i] = RightInversions(p, i, m)
                             /\ 0 <= ret.val[i] /\ ret.val[i] <= m - i
                      /\ m >= 1 => ret.val[m] = 0
    /\ op = "inversions" =>
           /\ ~ret.err
           /\ ret.val = sum(right_inversion_count(p, <<degree(p)>>).val)
           /\ ret.val = Cardinality(InversionPairs(p))

\* C25's case: the count was taken through more than the degree of a
\* permutation with inversions, so that it ends in zeroes
C25_Witness ==
    /\ op = "right_inversion_count" /\ ~ret.err
    /\ arg # <<>>
    /\ arg[1] > degree(p)
    /\ degree(p) >= 3
    /\ ret.val[1] >= 2

(***************************************************************************)
(* SpecFactorial: one input, an integer or a list of digits, and the       *)
(* factorial-base conversions.  arg is <<"int", n>> or <<"digits", ds>>.   *)
(***************************************************************************)
\* the integers handed to to_factorial_base
FactorialInts == (0 - 2)..factorial(MaxLen + 1)
\* the digit lists handed to from_factorial_base: digits below 0 and above
\* their place included
FactorialDigits == TuplesUpTo((0 - 1)..(MaxDeg + 1), MaxDeg)

\* to_factorial_base(n)
ToFactorialBaseOp ==
    /\ op = "init" /\ arg[1] = "int"
    /\ op' = "to_factorial_base"
    /\ ret' = to_factorial_base(arg[2])
    /\ UNCHANGED <<imgs, p, q, r, arg>>

\* from_factorial_base(ds), ds the digits to_factorial_base just returned
FromOfToFactorialBaseOp ==
    /\ op = "to_factorial_base" /\ ~ret.err
    /\ op' = "to_from_factorial_base"
    /\ r' = ret.val
    /\ ret' = from_factorial_base(ret.val)
    /\ UNCHANGED <<imgs, p, q, arg>>

\* from_factorial_base(ds)
FromFactorialBaseOp ==
    /\ op = "init" /\ arg[1] = "digits"
    /\ op' = "from_factorial_base"
    /\ ret' = from_factorial_base(arg[2])
    /\ UNCHANGED <<imgs, p, q, r, arg>>

InitFactorial ==
    /\ arg \in ({"int"} \X FactorialInts) \cup ({"digits"} \X FactorialDigits)
    /\ imgs = <<>>
    /\ p = <<>> /\ q = <<>> /\ r = <<>>
    /\ op = "init"
    /\ ret = Return(<<>>)

NextFactorial ==
    \/ ToFactorialBaseOp
    \/ FromOfToFactorialBaseOp
    \/ FromFactorialBaseOp

SpecFactorial == InitFactorial /\ [][NextFactorial]_vars

\* the digit of ds at position i counted from the least significant end
PlaceDigit(ds, i) == ds[Len(ds) + 1 - i]

\* every digit of ds lies in [0, i] for its position i
DigitsInRange(ds) ==
    \A i \in 1..Len(ds) : 0 <= PlaceDigit(ds, i) /\ PlaceDigit(ds, i) <= i

\* the number ds writes: the digit at position i counts i! times
RECURSIVE PlaceValue(_, _)
PlaceValue(ds, i) ==
    IF i > Len(ds) THEN 0
    ELSE PlaceDigit(ds, i) * factorial(i) + PlaceValue(ds, i + 1)

\* C26: for every n >= 0, to_factorial_base(n) is a non-empty list of digits,
\* most significant first, the digit at position i from the least
\* significant end in [0, i], the leading digit not 0 unless n = 0, which is
\* [0], and from_factorial_base of it is n; from_factorial_base(digits)
\* raises iff some digit lies outside [0, i] for its position;
\* to_factorial_base raises for n < 0.
C26_FactorialBaseCodec ==
    /\ op = "to_factorial_base" =>
           /\ ret.err <=> arg[2] < 0
           /\ ~ret.err =>
                  /\ ret.val # <<>>
                  /\ DigitsInRange(ret.val)
                  /\ arg[2] = 0 <=> ret.val = <<0>>
                  /\ arg[2] > 0 => ret.val[1] # 0
                  /\ PlaceValue(ret.val, 1) = arg[2]
    /\ op = "to_from_factorial_base" => ret = Return(arg[2])
    /\ op = "from_factorial_base" =>
           /\ ret.err <=> ~DigitsInRange(arg[2])
           /\ ~ret.err => ret.val = PlaceValue(arg[2], 1)

\* C26's case: a number of several digits was written in factorial base and
\* read back
C26_Witness ==
    /\ op = "to_from_factorial_base" /\ ~ret.err
    /\ Len(r) >= 3
    /\ r[2] # 0 /\ r[3] # 0

(***************************************************************************)
(* SpecToCycles: Permutation.to_cycles run one step at a time.  p is       *)
(* self.__map, r the frame of the call: the working copy cmap, the loop    *)
(* position i (1-based: i - 1 in the source), the list cycles, and, once   *)
(* they are first assigned, the cursor x and the cycle cyke under          *)
(* construction.  op is where the call stands: at the test of the for      *)
(* loop, at the top of the body of while True, or returned.                *)
(***************************************************************************)
\* the position lst[k] reads or writes, k an index of the source: indices
\* below 0 count from the end, and 0 stands for IndexError
list_pos(lst, k) ==
    IF 0 <= k /\ k < Len(lst) THEN k + 1
    ELSE IF k < 0 /\ k >= 0 - Len(lst) THEN Len(lst) + k + 1
    ELSE 0

\* a plausible slip: the position the cursor leaves is not marked
to_cycles_visit_none(cmap, pos) == cmap

\* cmap[x - 1] = 0
to_cycles_visit(cmap, pos) == [cmap EXCEPT ![pos] = 0]

\* p.to_cycles() is called: cmap = list(self.__map); cycles = []
ToCyclesCallOp ==
    /\ op = "new"
    /\ op' = "for"
    /\ r' = [cmap |-> p, i |-> 1, cycles |-> <<>>]
    /\ UNCHANGED <<imgs, p, q, arg, ret>>

\* the for loop takes its next i, or ends and cycles is returned; at i, the
\* test cmap[i] not in (0, i + 1), and x = i + 1; cyke = [] when it passes
ToCyclesForOp ==
    /\ op = "for"
    /\ IF r.i > Len(r.cmap)
       THEN /\ op' = "done"
            /\ ret' = Return(r.cycles)
            /\ r' = r
       ELSE IF r.cmap[r.i] \notin {0, r.i}
       THEN /\ op' = "while"
            /\ r' = [cmap |-> r.cmap, i |-> r.i, cycles |-> r.cycles,
                      x |-> r.i, cyke |-> <<>>]
            /\ ret' = ret
       ELSE /\ op' = "for"
            /\ r' = [r EXCEPT !.i = r.i + 1]
            /\ ret' = ret
    /\ UNCHANGED <<imgs, p, q, arg>>

\* one pass of the body of while True: cyke.append(x);
\* cmap[x - 1], x = 0, cmap[x - 1]; if x == i + 1: break, and after the
\* break cycles.append(tuple(cyke))
ToCyclesWhileOp ==
    /\ op = "while"
    /\ LET pos == list_pos(r.cmap, r.x - 1)
           cyke2 == Append(r.cyke, r.x)
       IN  IF pos = 0
           THEN /\ op' = "raised"
                /\ ret' = Raise("IndexError")
                /\ r' = [r EXCEPT !.cyke = cyke2]
           ELSE LET x2 == r.cmap[pos]
                    cmap2 == to_cycles_visit(r.cmap, pos)
                IN  IF x2 = r.i
                    THEN /\ op' = "for"
                         /\ r' = [r EXCEPT !.cmap = cmap2, !.x = x2,
                                           !.cyke = cyke2,
                                           !.cycles = Append(r.cycles, cyke2),
                                           !.i = r.i + 1]
                         /\ ret' = ret
                    ELSE /\ op' = "while"
                         /\ r' = [r EXCEPT !.cmap = cmap2, !.x = x2,
                                           !.cyke = cyke2]
                         /\ ret' = ret
    /\ UNCHANGED <<imgs, p, q, arg>>

InitToCycles ==
    /\ \E i \in GoodImgs(MaxLen) :
           /\ imgs = <<i>>
           /\ p = Permutation(i).val
    /\ q = <<>> /\ r = <<>>
    /\ op = "new"
    /\ arg = <<>>
    /\ ret = Return(<<>>)

NextToCycles ==
    \/ ToCyclesCallOp
    \/ ToCyclesForOp
    \/ ToCyclesWhileOp

\* the call runs on: a started call is never left unfinished
SpecToCycles == InitToCycles /\ [][NextToCycles]_vars /\ WF_vars(NextToCycles)

\* at every point of the run: no index is out of range; at the top of the
\* loop body the cursor is a position of the image, not the mark 0, and the
\* position it is about to read is not marked; only moved positions are
\* ever marked, and when the call returns every moved position is
C30_Safe ==
    /\ op # "raised"
    /\ op = "while" =>
           /\ r.x # 0
           /\ r.x \in 1..Len(p)
           /\ r.cmap[r.x] # 0
    /\ op \in {"for", "while", "done"} =>
           /\ Len(r.cmap) = Len(p)
           /\ \A k \in 1..Len(p) :
                  /\ r.cmap[k] \in {0, p[k]}
                  /\ r.cmap[k] = 0 => p[k] # k
    /\ op = "done" => \A k \in 1..Len(p) : p[k] # k => r.cmap[k] = 0

\* in every step: a pass of the loop body marks the one position the cursor
\* stands on, which was not marked before, and nothing else marks anything;
\* the loop is left only with the cursor back on the position it started
\* from, the cycle then listed starting there
C30_Step ==
    /\ op = "for" => r'.cmap = r.cmap
    /\ op = "while" =>
           /\ r.cmap[r.x] # 0
           /\ r'.cmap = [r.cmap EXCEPT ![r.x] = 0]
           /\ op' \in {"for", "while"}
           /\ op' = "for" <=> r'.x = r.i
           /\ op' = "for" =>
                  /\ r'.cycles = Append(r.cycles, r'.cyke)
                  /\ r'.cyke[1] = r.i

\* C30: in to_cycles, for every permutation, the loop that follows an orbit
\* never reads a position already marked visited (the cursor x is never the
\* mark 0 and never outside 1..degree), every moved position is marked
\* exactly once over the whole run, and every run of the inner loop ends,
\* by the cursor returning to the position it started from.
C30_ToCyclesOrbitLoop ==
    /\ []C30_Safe
    /\ [][C30_Step]_vars
    /\ (op = "while") ~> (op = "for")

\* C30's case: the call has returned after following two orbits
C30_Witness ==
    /\ op = "done"
    /\ Len(r.cycles) >= 2
    /\ \E k \in 1..Len(p) : r.cmap[k] = 0

\* the stepped call returns what to_cycles returns
ToCyclesStepsAgree == op = "done" => ret.val = to_cycles(p)

(***************************************************************************)
(* SpecStr: one Permutation, written by str and read back by parse.        *)
(***************************************************************************)
\* the values of the cycles that give Permutations with numbers of several
\* digits in their cycles
StrValues == {1, 2, 2 * MaxLen + 2, 3 * MaxLen}
\* the cycles over them
StrCycles ==
    {c \in TuplesUpTo(StrValues, MaxDeg) :
        Len(c) >= 2 /\ ~cycle(c).err}

\* s = str(p)
StrOp ==
    /\ op # "str"
    /\ op' = "str"
    /\ ret' = Return(str(p))
    /\ UNCHANGED <<imgs, p, q, r, arg>>

\* Permutation.parse(s), s the string str just returned
ParseOfStrOp ==
    /\ op = "str"
    /\ op' = "parse_str"
    /\ arg' = ret.val
    /\ ret' = parse(ret.val)
    /\ UNCHANGED <<imgs, p, q, r>>

InitStr ==
    /\ \/ \E i \in GoodImgs(MaxLen) :
              /\ imgs = <<i>>
              /\ p = Permutation(i).val
              /\ op = "new"
       \/ \E c \in StrCycles :
              /\ imgs = <<c>>
              /\ p = cycle(c).val
              /\ op = "cycle"
       \/ \E c \in StrCycles, d \in StrCycles :
              /\ imgs = <<c, d>>
              /\ p = from_cycles(<<c, d>>).val
              /\ op = "from_cycles"
    /\ q = <<>> /\ r = <<>>
    /\ arg = <<>>
    /\ ret = Return(<<>>)

NextStr ==
    \/ StrOp
    \/ ParseOfStrOp

SpecStr == InitStr /\ [][NextStr]_vars

\* the string s with every maximal run of digits replaced by the one
\* character "n", from position k on
RECURSIVE Shape(_, _)
Shape(s, k) ==
    IF k > Len(s) THEN <<>>
    ELSE IF ~isdigit(s[k]) THEN <<s[k]>> \o Shape(s, k + 1)
    ELSE IF k > 1 /\ isdigit(s[k - 1]) THEN Shape(s, k + 1)
    ELSE <<"n">> \o Shape(s, k + 1)

\* the number the digits s[a..b] write in decimal
RECURSIVE NumeralValue(_, _, _)
NumeralValue(s, a, b) ==
    IF a > b THEN 0
    ELSE 10 * NumeralValue(s, a, b - 1) + digit_value(s[b])

\* the maximal runs of digits in s, as pairs of their first and last position
DigitRuns(s) ==
    {ab \in (1..Len(s)) \X (1..Len(s)) :
        /\ ab[1] <= ab[2]
        /\ \A k \in ab[1]..ab[2] : isdigit(s[k])
        /\ ab[1] = 1 \/ ~isdigit(s[ab[1] - 1])
        /\ ab[2] = Len(s) \/ ~isdigit(s[ab[2] + 1])}

\* the numbers written in s, in the order they stand in it
RECURSIVE NumeralsFrom(_, _)
NumeralsFrom(s, k) ==
    IF \A ab \in DigitRuns(s) : ab[1] < k THEN <<>>
    ELSE LET ab == CHOOSE x \in DigitRuns(s) :
                       /\ x[1] >= k
                       /\ \A y \in DigitRuns(s) : y[1] >= k => x[1] <= y[1]
         IN  <<NumeralValue(s, ab[1], ab[2])>> \o NumeralsFrom(s, ab[2] + 1)

\* the elements of the cycles, one cycle after the other, from the k-th on
RECURSIVE Flatten(_, _)
Flatten(cycles, k) ==
    IF k > Len(cycles) THEN <<>> ELSE cycles[k] \o Flatten(cycles, k + 1)

\* what the cycles look like written out with "n" for every number: "(",
\* the numbers of a cycle with one space between neighbours, ")", and
\* nothing between the cycles
RECURSIVE WrittenShape(_, _)
WrittenShape(cycles, k) ==
    IF k > Len(cycles) THEN <<>>
    ELSE <<"(">>
         \o [j \in 1..(2 * Len(cycles[k]) - 1) |->
                IF j % 2 = 1 THEN "n" ELSE " "]
         \o <<")">>
         \o WrittenShape(cycles, k + 1)

\* C21: for every permutation p, str(p) is "1" when p is the identity and
\* otherwise, for each cycle of to_cycles(p) in order, "(", the integers of
\* the cycle in decimal with single spaces between them, ")", with nothing
\* between the cycles; and parse(str(p)) == p.
C21_StrParseRoundTrip ==
    /\ op = "str" =>
           /\ ~ret.err
           /\ p = <<>> => ret.val = <<"1">>
           /\ p # <<>> =>
                  /\ Shape(ret.val, 1) = WrittenShape(to_cycles(p), 1)
                  /\ NumeralsFrom(ret.val, 1) = Flatten(to_cycles(p), 1)
                  /\ \A ab \in DigitRuns(ret.val) : ret.val[ab[1]] # "0"
    /\ op = "parse_str" =>
           /\ ~ret.err
           /\ eq(ret.val, p)
           /\ ret.val = p

\* C21's case: a Permutation of two cycles with numbers of two digits was
\* written and read back
C21_Witness ==
    /\ op = "parse_str" /\ ~ret.err
    /\ Len(to_cycles(p)) >= 2
    /\ \E k \in 1..(Len(arg) - 1) : isdigit(arg[k]) /\ isdigit(arg[k + 1])

(***************************************************************************)
(* SpecParse: one string handed to Permutation.parse.                      *)
(***************************************************************************)
\* the characters of the strings that are tried in full
ParseChars == {"(", ")", "1", "2", " ", ","}
\* every string of them up to MaxStr, numbers of three digits left out
ParseStrings ==
    {s \in TuplesUpTo(ParseChars, MaxStr) :
        \A k \in 1..(Len(s) - 2) :
            ~(isdigit(s[k]) /\ isdigit(s[k + 1]) /\ isdigit(s[k + 2]))}
\* strings longer than MaxStr: those of the tests of parse, and others with
\* signs, underscores, leading zeros and numbers of two digits
ParseSamples ==
    {<<"(", " ", " ", ")">>,
     <<" ", "(", " ", "5", " ", ")", " ">>,
     <<"(", "1", " ", ",", "2", ")">>,
     <<"(", "1", ",", " ", "2", ")">>,
     <<"(", "1", " ", ",", " ", "2", ")">>,
     <<"\t", "\n", "(", "1", "\r", "2", "\r", "3", ")">>,
     <<"(", "3", " ", "4", " ", "5", ")", ",", "(", "1", " ", "2", ")">>,
     <<"(", "3", " ", "4", " ", "5", ")", " ", "(", "1", " ", "2", ")">>,
     <<"(", "3", " ", "4", " ", "5", ")", ",", " ", "(", "1", " ", "2", ")">>,
     <<"(", "3", " ", "4", " ", "5", ")", " ", ",", "(", "1", " ", "2", ")">>,
     <<"(", "1", " ", "3", ")", "(", "2", " ", "4", ")", "(", "1", " ", "2", ")">>,
     <<"(", "1", " ", "2", " ", "3">>,
     <<"[", "1", " ", "2", " ", "3", "]">>,
     <<"(", "-", "1", " ", "2", ")">>,
     <<"(", "0", " ", "1", ")">>,
     <<"(", "o", "n", "e", " ", "t", "w", "o", ")">>,
     <<"1", " ", "(", "1", " ", "2", " ", "3", ")">>,
     <<"(", "(", "3", " ", "4", " ", "5", ")", " ", "(", "1", " ", "2", ")", ")">>,
     <<"(", "3", " ", "4", " ", "5", ")", ")", "(", "1", " ", "2", ")">>,
     <<"(", "3", " ", "4", " ", "5", ")", "(", "(", "1", " ", "2", ")">>,
     <<",", "(", "1", " ", "2", " ", "3", ")">>,
     <<"(", "1", " ", "2", " ", "3", ")", ",">>,
     <<"(", ",", "1", " ", "2", " ", "3", ")">>,
     <<"(", "1", " ", "2", " ", "3", ",", ")">>,
     <<"(", "1", ",", ",", "2", ")">>,
     <<"(", "1", ",", " ", ",", "2", ")">>,
     <<"(", "1", " ", "2", " ", "1", ")">>,
     <<"(", "+", "1", " ", "2", ")">>,
     <<"(", "1", "_", "0", " ", "2", ")">>,
     <<"(", "0", "1", " ", "2", ")">>,
     <<"(", "1", "_", "_", "0", " ", "2", ")">>,
     <<"(", "1", "_", " ", "2", ")">>,
     <<"(", "1", " ", "2", ")", ",", ",", "(", "3", " ", "4", ")">>,
     <<"(", "1", " ", "2", ")", "(", "1", " ", "2", ")">>,
     <<"(", "2", " ", "1", ")", "(", "1", " ", "2", " ", "3", ")">>,
     <<"(", "1", " ", "2", ")", "\f">>,
     <<"(", "1", " ", "2", ")", "x">>,
     <<"(", "1", "0", " ", "2", " ", "1", "2", ")">>,
     <<"(", "1", " ", "2", ")", " ", "1">>}

\* Permutation.parse(s)
ParseOp ==
    /\ op = "init"
    /\ op' = "parse"
    /\ ret' = parse(arg)
    /\ UNCHANGED <<imgs, p, q, r, arg>>

InitParse ==
    /\ arg \in ParseStrings \cup ParseSamples
    /\ imgs = <<>>
    /\ p = <<>> /\ q = <<>> /\ r = <<>>
    /\ op = "init"
    /\ ret = Return(<<>>)

NextParse == ParseOp

SpecParse == InitParse /\ [][NextParse]_vars

\* the string s without the whitespace around it
Trimmed(s) ==
    LET inked == {k \in 1..Len(s) : s[k] \notin whitespace}
    IN  IF inked = {} THEN <<>>
        ELSE SubSeq(s, CHOOSE a \in inked : \A k \in inked : a <= k,
                       CHOOSE b \in inked : \A k \in inked : b >= k)

\* how many groups are open after the k-th character of t
Depth(t, k) ==
    Cardinality({j \in 1..k : t[j] = "("})
        - Cardinality({j \in 1..k : t[j] = ")"})

\* the groups of t, as pairs of the positions of "(" and its ")"
GroupSpans(t) ==
    {ab \in (1..Len(t)) \X (1..Len(t)) :
        /\ ab[1] < ab[2]
        /\ t[ab[1]] = "(" /\ t[ab[2]] = ")"
        /\ \A k \in (ab[1] + 1)..(ab[2] - 1) : t[k] \notin {"(", ")"}}

Separators == whitespace \cup {","}

\* the tokens of the group ab of t: the maximal runs of characters that
\* are neither whitespace nor comma, as pairs of first and last position
TokenSpans(t, ab) ==
    {cd \in ((ab[1] + 1)..(ab[2] - 1)) \X ((ab[1] + 1)..(ab[2] - 1)) :
        /\ cd[1] <= cd[2]
        /\ \A k \in cd[1]..cd[2] : t[k] \notin Separators
        /\ cd[1] - 1 = ab[1] \/ t[cd[1] - 1] \in Separators
        /\ cd[2] + 1 = ab[2] \/ t[cd[2] + 1] \in Separators}

\* the token cd of t writes an integer: an optional sign, then digits, which
\* single underscores may group
IsInteger(t, cd) ==
    LET c == IF t[cd[1]] \in {"+", "-"} THEN cd[1] + 1 ELSE cd[1]
    IN  /\ c <= cd[2]
        /\ isdigit(t[c]) /\ isdigit(t[cd[2]])
        /\ \A k \in c..cd[2] :
               \/ isdigit(t[k])
               \/ t[k] = "_" /\ isdigit(t[k - 1]) /\ isdigit(t[k + 1])

\* the number the digits among t[c..d] write
RECURSIVE DigitsValue(_, _, _)
DigitsValue(t, c, d) ==
    IF c > d THEN 0
    ELSE IF isdigit(t[d]) THEN 10 * DigitsValue(t, c, d - 1) + digit_value(t[d])
    ELSE DigitsValue(t, c, d - 1)

\* the integer the token cd of t writes
IntegerValue(t, cd) ==
    IF t[cd[1]] = "-" THEN 0 - DigitsValue(t, cd[1], cd[2])
    ELSE DigitsValue(t, cd[1], cd[2])

\* the group ab of t is well formed: its tokens are integers, positive and
\* pairwise distinct, every comma stands between two of them, and no two
\* commas stand between the same two
GroupOK(t, ab) ==
    LET toks == TokenSpans(t, ab)
        commas == {k \in (ab[1] + 1)..(ab[2] - 1) : t[k] = ","}
    IN  /\ \A cd \in toks : IsInteger(t, cd) /\ IntegerValue(t, cd) > 0
        /\ \A cd \in toks, ef \in toks :
               cd # ef => IntegerValue(t, cd) # IntegerValue(t, ef)
        /\ \A k \in commas :
               /\ \E cd \in toks : cd[2] < k
               /\ \E cd \in toks : cd[1] > k
        /\ \A k \in commas, l \in commas :
               k < l => \E cd \in toks : k < cd[1] /\ cd[2] < l

\* t is one or more groups with nothing but whitespace and commas between
\* them: parentheses open and close in turn, and t starts and ends with one
GroupsOK(t) ==
    /\ t # <<>>
    /\ t[1] = "(" /\ t[Len(t)] = ")"
    /\ \A k \in 1..Len(t) :
           /\ Depth(t, k) \in {0, 1}
           /\ (Depth(t, k) = 0 /\ t[k] # ")") => t[k] \in Separators
    /\ \A ab \in GroupSpans(t) : GroupOK(t, ab)

\* the strings the claim has parse accept
Accepted(s) == Trimmed(s) = <<"1">> \/ GroupsOK(Trimmed(s))

\* the pairs of the set S in the order of their first components
RECURSIVE InOrder(_)
InOrder(S) ==
    IF S = {} THEN <<>>
    ELSE LET m == CHOOSE x \in S : \A y \in S : x[1] <= y[1]
         IN  <<m>> \o InOrder(S \ {m})

\* the groups of t in order, each the integers of its tokens in order
GroupsOf(t) ==
    LET spans == InOrder(GroupSpans(t))
    IN  [g \in 1..Len(spans) |->
            LET toks == InOrder(TokenSpans(t, spans[g]))
            IN  [j \in 1..Len(toks) |-> IntegerValue(t, toks[j])]]

\* C22: parse(s) accepts exactly the strings that, with the whitespace
\* around them trimmed, are the literal "1" or one or more parenthesized
\* groups, each of zero or more positive pairwise distinct integers
\* separated by whitespace or by a single comma with optional whitespace,
\* with only whitespace and commas between groups, and then returns
\* from_cycles of the groups in order; every other string raises.
C22_ParseAcceptsCycleNotation ==
    op = "parse" =>
        /\ ret.err <=> ~Accepted(arg)
        /\ Trimmed(arg) = <<"1">> => ret = Permutation(<<>>)
        /\ GroupsOK(Trimmed(arg)) =>
               ret = from_cycles(GroupsOf(Trimmed(arg)))

\* C22's case: a string with a comma in it was parsed into a Permutation
\* that is not the identity
C22_Witness ==
    /\ op = "parse" /\ ~ret.err
    /\ ret.val # <<>>
    /\ \E k \in 1..Len(arg) : arg[k] = ","

(***************************************************************************)
(* SpecFrame: the operations as they act on the objects they are given.    *)
(* A heap maps the name of every object to its contents: "self" and        *)
(* "other" are the tuples self.__map of the operands p and q, "xs" is the  *)
(* caller's list r, and every list an operation makes is a further object, *)
(* named after the local variable that holds it.  An operation's effect is *)
(* the heap it leaves; the lists it made are dropped when it returns.      *)
(***************************************************************************)
\* the heap h with the object ref added, or its contents replaced
heap_put(h, ref, contents) ==
    [o \in DOMAIN h \cup {ref} |-> IF o = ref THEN contents ELSE h[o]]

\* a plausible slip: name = x for name = list(x), the same object under a
\* second name
list_alias(h, src, name) == [heap |-> h, ref |-> src]

\* name = list(x), x the object src: a new list with the elements of x
list_copy(h, src, name) ==
    [heap |-> heap_put(h, name, h[src]), ref |-> name]

\* what the loop of next_permutation leaves in map2, from position i on
RECURSIVE next_map2(_, _)
next_map2(map2, i) ==
    IF i > Len(map2) THEN map2
    ELSE IF map2[i] > map2[i - 1]
         THEN swap_reverse(map2, i, next_find(map2, i, 1))
         ELSE next_map2(map2, i + 1)

\* what the loop of prev_permutation leaves in map2, from position i on
RECURSIVE prev_map2(_, _)
prev_map2(map2, i) ==
    IF i > Len(map2) THEN map2
    ELSE IF map2[i] < map2[i - 1]
         THEN swap_reverse(map2, i, prev_find(map2, i, 1))
         ELSE prev_map2(map2, i + 1)

\* what the loop of to_cycles leaves in cmap, from position i on
RECURSIVE to_cycles_cmap(_, _)
to_cycles_cmap(cmap, i) ==
    IF i > Len(cmap) THEN cmap
    ELSE IF cmap[i] \notin {0, i}
         THEN to_cycles_cmap(to_cycles_orbit(cmap, i, <<>>, i).cmap, i + 1)
         ELSE to_cycles_cmap(cmap, i + 1)

\* the heap after self.next_permutation(): map2 = list(self.__map), and
\* the assignments to map2
next_permutation_heap(h) ==
    LET c == list_copy(h, "self", "map2")
    IN  heap_put(c.heap, c.ref, next_map2(c.heap[c.ref], 2))

\* the heap after self.prev_permutation()
prev_permutation_heap(h) ==
    IF degree(h["self"]) < 2 THEN h
    ELSE LET c == list_copy(h, "self", "map2")
         IN  heap_put(c.heap, c.ref, prev_map2(c.heap[c.ref], 2))

\* the heap after self.to_cycles(): cmap = list(self.__map), and the
\* assignments cmap[x - 1] = 0
to_cycles_heap(h) ==
    LET c == list_copy(h, "self", "cmap")
    IN  heap_put(c.heap, c.ref, to_cycles_cmap(c.heap[c.ref], 1))

\* the heap after self.permute(xs), xs the object arg: xs = list(xs),
\* out = [None] * len(xs), and the assignments to out
permute_heap(h, arg_ref) ==
    LET c == list_copy(h, arg_ref, "xs_list")
        o == permute(h["self"], c.heap[c.ref])
    IN  IF o.err THEN c.heap ELSE heap_put(c.heap, "out", o.val)

\* the heap after self.right_inversion_count(n): left = list(range(1,
\* m + 1)), emptied by del left[i]
right_inversion_count_heap(h, n) ==
    IF right_inversion_count(h["self"], n).err THEN h
    ELSE heap_put(h, "left", <<>>)

\* the operands and the caller's list as objects
Heap == [o \in {"self", "other", "xs"} |->
            IF o = "self" THEN p ELSE IF o = "other" THEN q ELSE r]

\* the images of the first operand
FrameImgs == GoodImgs(MaxDeg)
\* the images of the second operand
FrameOthers == {<<>>, <<2, 1>>, <<2, 3, 1>>}
\* the caller's lists: shorter than the degree, and longer
FrameLists == {[k \in 1..n |-> 10 * k] : n \in {0, MaxDeg, MaxDeg + 1}}
\* the integers p is applied to
FrameXs == 0..(MaxDeg + 1)
\* the exponents
FrameExponents == (0 - 2)..MaxCycles
\* the degrees handed to to_image, right_inversion_count and lehmer
FrameDegrees == (0 - 1)..(MaxDeg + 1)

\* p(x)
FrameCallOp(x) ==
    /\ op' = "call"
    /\ arg' = x
    /\ ret' = Return(call(p, x))
    /\ UNCHANGED <<imgs, p, q, r>>

\* p * q
FrameMulOp ==
    /\ op' = "mul"
    /\ arg' = <<>>
    /\ ret' = mul(p, q)
    /\ UNCHANGED <<imgs, p, q, r>>

\* p ** n
FramePowOp(n) ==
    /\ op' = "pow"
    /\ arg' = n
    /\ ret' = pow(p, n)
    /\ UNCHANGED <<imgs, p, q, r>>

\* p.inverse(): self.permute(range(1, self.degree + 1)), the range a new
\* object
FrameInverseOp ==
    /\ op' = "inverse"
    /\ arg' = <<>>
    /\ ret' = inverse(p)
    /\ LET h == permute_heap(heap_put(Heap, "range",
                                      [k \in 1..degree(p) |-> k]), "range")
       IN  p' = h["self"] /\ q' = h["other"] /\ r' = h["xs"]
    /\ UNCHANGED imgs

\* p.to_cycles()
FrameToCyclesOp ==
    /\ op' = "to_cycles"
    /\ arg' = <<>>
    /\ ret' = Return(to_cycles(p))
    /\ LET h == to_cycles_heap(Heap)
       IN  p' = h["self"] /\ q' = h["other"] /\ r' = h["xs"]
    /\ UNCHANGED imgs

\* p.to_image(n)
FrameToImageOp(n) ==
    /\ op' = "to_image"
    /\ arg' = n
    /\ ret' = to_image(p, n)
    /\ UNCHANGED <<imgs, p, q, r>>

\* p.right_inversion_count(n)
FrameRightInversionCountOp(n) ==
    /\ op' = "right_inversion_count"
    /\ arg' = n
    /\ ret' = right_inversion_count(p, n)
    /\ LET h == right_inversion_count_heap(Heap, n)
       IN  p' = h["self"] /\ q' = h["other"] /\ r' = h["xs"]
    /\ UNCHANGED imgs

\* p.lehmer(n)
FrameLehmerOp(n) ==
    /\ op' = "lehmer"
    /\ arg' = n
    /\ ret' = lehmer(p, n)
    /\ LET h == right_inversion_count_heap(Heap, <<n>>)
       IN  p' = h["self"] /\ q' = h["other"] /\ r' = h["xs"]
    /\ UNCHANGED imgs

\* p.left_lehmer()
FrameLeftLehmerOp ==
    /\ op' = "left_lehmer"
    /\ arg' = <<>>
    /\ ret' = left_lehmer(p)
    /\ UNCHANGED <<imgs, p, q, r>>

\* p.next_permutation()
FrameNextPermutationOp ==
    /\ op' = "next_permutation"
    /\ arg' = <<>>
    /\ ret' = next_permutation(p)
    /\ LET h == next_permutation_heap(Heap)
       IN  p' = h["self"] /\ q' = h["other"] /\ r' = h["xs"]
    /\ UNCHANGED imgs

\* p.prev_permutation()
FramePrevPermutationOp ==
    /\ op' = "prev_permutation"
    /\ arg' = <<>>
    /\ ret' = prev_permutation(p)
    /\ LET h == prev_permutation_heap(Heap)
       IN  p' = h["self"] /\ q' = h["other"] /\ r' = h["xs"]
    /\ UNCHANGED imgs

\* p.permute(xs), xs the caller's list
FramePermuteOp ==
    /\ op' = "permute"
    /\ arg' = <<>>
    /\ ret' = permute(p, r)
    /\ LET h == permute_heap(Heap, "xs")
       IN  p' = h["self"] /\ q' = h["other"] /\ r' = h["xs"]
    /\ UNCHANGED imgs

\* p.isdisjoint(q)
FrameIsDisjointOp ==
    /\ op' = "isdisjoint"
    /\ arg' = <<>>
    /\ ret' = Return(isdisjoint(p, q))
    /\ UNCHANGED <<imgs, p, q, r>>

\* str(p): it calls self.to_cycles()
FrameStrOp ==
    /\ op' = "str"
    /\ arg' = <<>>
    /\ ret' = Return(str(p))
    /\ LET h == to_cycles_heap(Heap)
       IN  p' = h["self"] /\ q' = h["other"] /\ r' = h["xs"]
    /\ UNCHANGED imgs

InitFrame ==
    /\ \E i \in FrameImgs, j \in FrameOthers, xs \in FrameLists :
           /\ imgs = <<i, j, xs>>
           /\ p = Permutation(i).val
           /\ q = Permutation(j).val
           /\ r = xs
    /\ op = "new"
    /\ arg = <<>>
    /\ ret = Return(<<>>)

NextFrame ==
    \/ \E x \in FrameXs : FrameCallOp(x)
    \/ FrameMulOp
    \/ \E n \in FrameExponents : FramePowOp(n)
    \/ FrameInverseOp
    \/ FrameToCyclesOp
    \/ \E n \in FrameDegrees : FrameToImageOp(<<n>>)
    \/ FrameToImageOp(<<>>)
    \/ \E n \in FrameDegrees : FrameRightInversionCountOp(<<n>>)
    \/ FrameRightInversionCountOp(<<>>)
    \/ \E n \in FrameDegrees : FrameLehmerOp(n)
    \/ FrameLeftLehmerOp
    \/ FrameNextPermutationOp
    \/ FramePrevPermutationOp
    \/ FramePermuteOp
    \/ FrameIsDisjointOp
    \/ FrameStrOp

SpecFrame == InitFrame /\ [][NextFrame]_vars

\* no step changes the image of an operand or the caller's list
C29_Frame == p' = p /\ q' = q /\ r' = r

\* the operands apply as they did when they were made, and the caller's
\* list is what it was
C29_AsObserved ==
    /\ \A x \in XRange :
           /\ call(p, x) = call(Permutation(imgs[1]).val, x)
           /\ call(q, x) = call(Permutation(imgs[2]).val, x)
    /\ degree(p) = degree(Permutation(imgs[1]).val)
    /\ degree(q) = degree(Permutation(imgs[2]).val)
    /\ r = imgs[3]

\* C29: permutations are immutable: no operation (application, *, **,
\* inverse, to_cycles, to_image, right_inversion_count, lehmer, left_lehmer,
\* next_permutation, prev_permutation, permute, isdisjoint, str), whether it
\* returns or raises, changes the stored image of an operand, and permute
\* leaves the caller's sequence as it was; so after any sequence of
\* operations a permutation applies as it did before.
C29_PermutationsAreImmutable ==
    /\ [][C29_Frame]_vars
    /\ []C29_AsObserved

\* C29's case: an operation that writes to its working list has returned a
\* new Permutation
C29_Witness ==
    /\ op = "next_permutation" /\ ~ret.err
    /\ p # <<>>
    /\ ret.val # p

=============================================================================
